---- MODULE Spec2Model ----
(***************************************************************************)
(* Falcon language core: compiler (AST -> Code), bytecode VM, tree         *)
(* interpreter and lexical environments, modelled from src/src/falcon.     *)
(*                                                                         *)
(* Indices are 0-based as in the Python source: instruction i of a Code    *)
(* object is instructions[i + 1] of the TLA+ sequence, const i is          *)
(* consts[i + 1], local slot i is locals[i + 1].                           *)
(***************************************************************************)
EXTENDS Integers, Sequences, FiniteSets, TLC

(***************************************************************************)
(* Runtime values.  Every variant has its own payload field so that two    *)
(* values of different kinds are records over different domains.           *)
(***************************************************************************)
None == [t |-> "null"]

IntV(n) == [t |-> "int", i |-> n]

BoolV(x) == [t |-> "bool", b |-> x]

StrV(x) == [t |-> "str", s |-> x]

NativeV(n) == [t |-> "native", native |-> n]

\* a Python list of values
ListV(items) == [t |-> "list", items |-> items]

\* compiler.FunctionObject, code-backed (vm.py h_make_function, mode CODE)
FunctionObjectCode(fname, c) == [t |-> "fobj_code", fname |-> fname, code |-> c]

\* compiler.FunctionObject, AST-backed (vm.py h_make_function, mode AST)
FunctionObjectAst(node) == [t |-> "fobj_ast", ast_node |-> node]

\* interpreter.Function: AST function closed over the environment `closure`
Function(name, params, body, closure) ==
    [t |-> "Function", fn_name |-> name, params |-> params, body |-> body, closure |-> closure]

\* the _recur_wrapper closure call_function_ast binds to the function's own name
RecurWrapper(node) == [t |-> "recur", ast_node |-> node]

IsNum(v) == v.t \in {"int", "bool"}

\* Python: bool is a subclass of int (True == 1, False == 0)
Num(v) == IF v.t = "int" THEN v.i ELSE IF v.b THEN 1 ELSE 0

\* Python == on the modelled values
PyEq(a, b) ==
    IF IsNum(a) /\ IsNum(b) THEN Num(a) = Num(b)
    ELSE IF a.t # b.t THEN FALSE
    ELSE IF a.t = "null" THEN TRUE
    ELSE IF a.t = "str" THEN a.s = b.s
    ELSE IF a.t = "native" THEN a.native = b.native
    ELSE FALSE

\* VM._is_truthy / Interpreter._is_truthy
IsTruthy(v) ==
    IF v.t = "null" THEN FALSE
    ELSE IF v.t = "bool" THEN v.b
    ELSE IF v.t = "int" THEN v.i # 0
    ELSE IF v.t = "str" THEN v.s # ""
    ELSE TRUE

\* builtins._to_string_impl on the modelled values
ToStringImpl(v) ==
    IF v.t = "null" THEN "null"
    ELSE IF v.t = "bool" THEN (IF v.b THEN "true" ELSE "false")
    ELSE IF v.t = "str" THEN v.s
    ELSE IF v.t = "int" THEN ToString(v.i)
    ELSE "<function>"

(***************************************************************************)
(* AST nodes (ast_nodes.py).  An absent optional child is NoNode.          *)
(***************************************************************************)
NoNode == [k |-> "NoNode"]

Literal(v) == [k |-> "Literal", value |-> v]

Variable(n) == [k |-> "Variable", name |-> n]

Binary(l, op, r) == [k |-> "Binary", left |-> l, op |-> op, right |-> r]

Unary(op, e) == [k |-> "Unary", op |-> op, operand |-> e]

Grouping(e) == [k |-> "Grouping", expression |-> e]

Call(c, args) == [k |-> "Call", callee |-> c, arguments |-> args]

FunctionExpr(n, ps, b) == [k |-> "FunctionExpr", name |-> n, params |-> ps, body |-> b]

Assign(tg, v) == [k |-> "Assign", target |-> tg, value |-> v]

ExprStmt(e) == [k |-> "ExprStmt", expr |-> e]

LetStmt(n, init, isc, isv) ==
    [k |-> "LetStmt", name |-> n, initializer |-> init, is_const |-> isc, is_var |-> isv]

TypeAnnotation(n) == [k |-> "TypeAnnotation", name |-> n]

\* LetStmt with its optional type_ann given
LetStmtTyped(n, init, isc, isv, ann) ==
    [k |-> "LetStmt", name |-> n, initializer |-> init, is_const |-> isc, is_var |-> isv,
     type_ann |-> ann]

BlockStmt(ss) == [k |-> "BlockStmt", body |-> ss]

IfStmt(c, th, el) == [k |-> "IfStmt", condition |-> c, then_branch |-> th, else_branch |-> el]

WhileStmt(c, b) == [k |-> "WhileStmt", condition |-> c, body |-> b]

ForStmt(n, s, e, st, b) ==
    [k |-> "ForStmt", name |-> n, start |-> s, end |-> e, step |-> st, body |-> b]

LoopStmt(b) == [k |-> "LoopStmt", body |-> b]

BreakStmt == [k |-> "BreakStmt"]

FunctionStmt(n, ps, b) == [k |-> "FunctionStmt", name |-> n, params |-> ps, body |-> b]

ReturnStmt(v) == [k |-> "ReturnStmt", value |-> v]

ThrowStmt(v) == [k |-> "ThrowStmt", value |-> v]

TryCatchStmt(t, n, c) ==
    [k |-> "TryCatchStmt", try_block |-> t, catch_name |-> n, catch_block |-> c]

ListLiteral(es) == [k |-> "ListLiteral", elements |-> es]

WildcardPattern == [k |-> "WildcardPattern"]

LiteralPattern(v) == [k |-> "LiteralPattern", value |-> v]

VariablePattern(n) == [k |-> "VariablePattern", name |-> n]

ListPattern(es) == [k |-> "ListPattern", elements |-> es]

CaseArm(p, g, b) == [k |-> "CaseArm", pattern |-> p, guard |-> g, body |-> b]

MatchExpr(v, arms) == [k |-> "MatchExpr", value |-> v, arms |-> arms]

MatchStmt(v, arms) == [k |-> "MatchStmt", value |-> v, arms |-> arms]

(***************************************************************************)
(* Compiler (compiler.py).  A compiler state is the Compiler object; err   *)
(* is "" until a CompileError is raised, after which nothing is emitted.   *)
(***************************************************************************)
NoLocals == [n \in {} |-> 0]

\* Compiler.__init__ with the given name
NewCompiler(name) ==
    [instructions |-> <<>>, consts |-> <<>>, locals |-> NoLocals, next_local |-> 0,
     argcount |-> 0, name |-> name, loop_stack |-> <<>>, err |-> ""]

Raise(cs, msg) == IF cs.err = "" THEN [cs EXCEPT !.err = msg] ELSE cs

\* a raised CompileError aborts the compilation: nothing below runs after it
Emit(cs, op, arg) ==
    IF cs.err # "" THEN cs
    ELSE [cs EXCEPT !.instructions = Append(@, [op |-> op, arg |-> arg])]

\* the index _add_const returns is Len(cs.consts) before the call
AddConst(cs, v) == IF cs.err # "" THEN cs ELSE [cs EXCEPT !.consts = Append(@, v)]

EmitConst(cs, v) == Emit(AddConst(cs, v), "LOAD_CONST", Len(cs.consts))

\* _emit_jump without a target leaves the placeholder -1
EmitJump(cs, op) == Emit(cs, op, -1)

PatchJump(cs, idx, target) ==
    IF cs.err # "" THEN cs ELSE [cs EXCEPT !.instructions[idx + 1].arg = target]

InFunction(cs) == cs.name # "<module>"

AllocLocal(cs, name) ==
    IF cs.err # "" \/ name \in DOMAIN cs.locals THEN cs
    ELSE [cs EXCEPT !.locals = @ @@ (name :> cs.next_local), !.next_local = @ + 1]

OpMap ==
    [x \in {"+", "-", "*", "/", "%", "==", "!=", "<", "<=", ">", ">="} |->
        CASE x = "+" -> "ADD" [] x = "-" -> "SUB" [] x = "*" -> "MUL" [] x = "/" -> "DIV"
          [] x = "%" -> "MOD" [] x = "==" -> "EQ" [] x = "!=" -> "NEQ" [] x = "<" -> "LT"
          [] x = "<=" -> "LTE" [] x = ">" -> "GT" [] x = ">=" -> "GTE"]

\* Python `lit.value == 1`
IsOne(v) == IsNum(v) /\ Num(v) = 1

\* value is `name + 1` or `1 + name`
IsIncOf(val, name) ==
    /\ val.k = "Binary"
    /\ val.op = "+"
    /\ \/ (val.left.k = "Variable" /\ val.right.k = "Literal"
             /\ val.left.name = name /\ IsOne(val.right.value))
       \/ (val.right.k = "Variable" /\ val.left.k = "Literal"
             /\ val.right.name = name /\ IsOne(val.left.value))

RECURSIVE PatchAll(_, _, _)
PatchAll(cs, positions, target) ==
    IF positions = <<>> THEN cs
    ELSE PatchAll(PatchJump(cs, Head(positions), target), Tail(positions), target)

PushLoop(cs, start_ip) ==
    IF cs.err # "" THEN cs
    ELSE [cs EXCEPT !.loop_stack =
                Append(@, [start_ip |-> start_ip, break_positions |-> <<>>])]

\* patch the recorded breaks of the innermost loop to loop_end and pop it
FinishLoop(cs, loop_end) ==
    IF cs.err # "" THEN cs
    ELSE LET ctx == cs.loop_stack[Len(cs.loop_stack)]
             patched == PatchAll(cs, ctx.break_positions, loop_end)
         IN [patched EXCEPT !.loop_stack = SubSeq(@, 1, Len(@) - 1)]

Code(name, instructions, consts, nlocals, argcount) ==
    [t |-> "code", name |-> name, instructions |-> instructions, consts |-> consts,
     nlocals |-> nlocals, argcount |-> argcount]

\* name of the hidden for-loop locals: f"__for_end_{iter_idx}", f"__for_step_{iter_idx}"
ForEndName(idx) == "__for_end_" \o ToString(idx)

ForStepName(idx) == "__for_step_" \o ToString(idx)

\* the counting-loop shape the LoopStmt case looks for (compiler.py 369-400)
FusionPattern(stmt) ==
    /\ stmt.body.k = "BlockStmt"
    /\ Len(stmt.body.body) >= 2
    /\ LET first == stmt.body.body[1]
           second == stmt.body.body[2]
       IN /\ first.k = "IfStmt"
          /\ first.then_branch.k = "BreakStmt"
          /\ first.condition.k = "Binary"
          /\ first.condition.left.k = "Variable"
          /\ first.condition.right.k = "Literal"
          /\ first.condition.op \in {">", ">="}
          /\ second.k = "ExprStmt"
          /\ second.expr.k = "Assign"
          /\ second.expr.target.k = "Variable"
          /\ second.expr.target.name = first.condition.left.name
          /\ IsIncOf(second.expr.value, first.condition.left.name)

\* len(self.instructions): the index the next emitted instruction gets
Here(cs) == Len(cs.instructions)

\* self._patch_jump(idx, len(self.instructions))
PatchHere(cs, idx) == PatchJump(cs, idx, Here(cs))

\* a loop is finalized at the current end of the code: its exit jumps and its
\* recorded breaks are patched to it and its context is popped
EndLoop(cs, exits) == FinishLoop(PatchAll(cs, exits, Here(cs)), Here(cs))

RECURSIVE CompileStmt(_, _), CompileExpr(_, _), CompileStmts(_, _), CompileExprs(_, _)
RECURSIVE CompileFunction(_)

\* a sequence of statements compiled in order (the for-loops over stmt lists)
CompileStmts(cs, stmts) ==
    IF stmts = <<>> \/ cs.err # "" THEN cs
    ELSE CompileStmts(CompileStmt(cs, Head(stmts)), Tail(stmts))

CompileExprs(cs, exprs) ==
    IF exprs = <<>> \/ cs.err # "" THEN cs
    ELSE CompileExprs(CompileExpr(cs, Head(exprs)), Tail(exprs))

RECURSIVE ParamLocals(_, _)
\* compile_function: parameters become the first locals
ParamLocals(sub, params) ==
    IF params = <<>> THEN sub
    ELSE ParamLocals([sub EXCEPT
                        !.locals = [n \in (DOMAIN @) \cup {Head(params)} |->
                                      IF n = Head(params) THEN sub.next_local ELSE @[n]],
                        !.next_local = @ + 1],
                     Tail(params))

\* Compiler.compile_function: the sub-compiler after the body and the implicit return
CompileFunction(fn_stmt) ==
    Emit(EmitConst(CompileStmts([ParamLocals(NewCompiler(fn_stmt.name), fn_stmt.params)
                                    EXCEPT !.argcount = Len(fn_stmt.params)],
                                fn_stmt.body.body),
                   None),
         "RETURN", None)

CodeOf(cs) == Code(cs.name, cs.instructions, cs.consts, cs.next_local, cs.argcount)

\* `&&` and `||`, after the left operand (c1): JUMP_IF_FALSE, then the right operand;
\* `&&` patches its jump to the end, the jskip of `||` is never patched
\* (compiler.py 509-514)
CompileLogic(c1, expr) ==
    IF expr.op = "&&"
    THEN PatchHere(CompileExpr(EmitJump(c1, "JUMP_IF_FALSE"), expr.right), Here(c1))
    ELSE CompileExpr(EmitJump(c1, "JUMP_IF_FALSE"), expr.right)

\* assignment to a variable, after the value (c1): store, then load the result back
CompileStore(c1, name) ==
    IF name \in DOMAIN c1.locals
    THEN Emit(Emit(c1, "STORE_LOCAL", c1.locals[name]), "LOAD_LOCAL", c1.locals[name])
    ELSE Emit(Emit(c1, "STORE_GLOBAL", name), "LOAD_GLOBAL", name)

\* Compiler._compile_expr
CompileExpr(cs, expr) ==
    IF cs.err # "" THEN cs
    ELSE IF expr.k = "Literal" THEN EmitConst(cs, expr.value)
    ELSE IF expr.k = "Variable" THEN
        IF expr.name \in DOMAIN cs.locals
        THEN Emit(cs, "LOAD_LOCAL", cs.locals[expr.name])
        ELSE Emit(cs, "LOAD_GLOBAL", expr.name)
    ELSE IF expr.k = "Grouping" THEN CompileExpr(cs, expr.expression)
    ELSE IF expr.k = "Unary" THEN
        IF expr.op = "!" THEN Emit(CompileExpr(cs, expr.operand), "NOT", None)
        ELSE IF expr.op = "-"
        THEN Emit(EmitConst(CompileExpr(cs, expr.operand), IntV(-1)), "MUL", None)
        ELSE Raise(CompileExpr(cs, expr.operand), "Unsupported unary operator")
    ELSE IF expr.k = "Binary" THEN
        IF expr.op \in {"&&", "||"} THEN CompileLogic(CompileExpr(cs, expr.left), expr)
        ELSE IF expr.op \in DOMAIN OpMap
        THEN Emit(CompileExpr(CompileExpr(cs, expr.left), expr.right), OpMap[expr.op], None)
        ELSE Raise(CompileExpr(CompileExpr(cs, expr.left), expr.right),
                   "Unsupported binary operator")
    ELSE IF expr.k = "Assign" THEN
        IF /\ expr.target.k = "Variable"
           /\ IsIncOf(expr.value, expr.target.name)
           /\ InFunction(cs)
        THEN \* INC_LOCAL idx; LOAD_LOCAL idx
             LET idx == AllocLocal(cs, expr.target.name).locals[expr.target.name]
             IN Emit(Emit(AllocLocal(cs, expr.target.name), "INC_LOCAL", idx),
                     "LOAD_LOCAL", idx)
        ELSE IF expr.target.k = "Variable"
        THEN CompileStore(CompileExpr(cs, expr.value), expr.target.name)
        ELSE Raise(cs, "Invalid assignment target")
    ELSE IF expr.k = "FunctionExpr" THEN
        Emit(AddConst(cs, expr), "MAKE_FUNCTION", <<"AST", Len(cs.consts)>>)
    ELSE IF expr.k = "Call" THEN
        Emit(CompileExprs(CompileExpr(cs, expr.callee), expr.arguments),
             "CALL", Len(expr.arguments))
    ELSE Raise(cs, "Unhandled expression type in compiler")

\* WhileStmt, after the condition (c1): exit jump, body, jump back, finalize
CompileWhileBody(c1, stmt, start_ip) ==
    EndLoop(Emit(CompileStmt(PushLoop(EmitJump(c1, "JUMP_IF_FALSE"), start_ip), stmt.body),
                 "JUMP", start_ip),
            <<Here(c1)>>)

\* the WhileStmt case of _compile_stmt
CompileWhile(cs, stmt) == CompileWhileBody(CompileExpr(cs, stmt.condition), stmt, Here(cs))

\* ForStmt, from the loop body on (c11): body, increment, jump back, finalize
CompileForBody(c11, stmt, ix, start_check_ip, exits) ==
    EndLoop(Emit(Emit(Emit(Emit(Emit(CompileStmt(PushLoop(c11, Here(c11)), stmt.body),
                 "LOAD_LOCAL", ix.iter), "LOAD_LOCAL", ix.step), "ADD", None),
                 "STORE_LOCAL", ix.iter), "JUMP", start_check_ip),
            exits)

\* ForStmt, after the stores of start, end and step (c4): the test step > 0 with
\* jsteppos (at c5), the ascending test with jexit1 (at c6) and jgoto_body (at c7),
\* the descending test with jexit2 (at c9)
CompileForCheck(c4, stmt, ix) ==
    LET c5 == Emit(EmitConst(Emit(c4, "LOAD_LOCAL", ix.step), IntV(0)), "GT", None)
        c6 == Emit(Emit(Emit(EmitJump(c5, "JUMP_IF_FALSE"),
                   "LOAD_LOCAL", ix.iter), "LOAD_LOCAL", ix.end), "LTE", None)
        c7 == EmitJump(c6, "JUMP_IF_FALSE")
        c9 == Emit(Emit(Emit(PatchHere(EmitJump(c7, "JUMP"), Here(c5)),
                   "LOAD_LOCAL", ix.iter), "LOAD_LOCAL", ix.end), "GTE", None)
    IN CompileForBody(PatchHere(EmitJump(c9, "JUMP_IF_FALSE"), Here(c7)),
                      stmt, ix, Here(c4), <<Here(c6), Here(c9)>>)

\* the step expression, 1 when absent
CompileForStep(c2, step) ==
    IF step.k # "NoNode" THEN CompileExpr(c2, step) ELSE EmitConst(c2, IntV(1))

\* the ForStmt case of _compile_stmt: the iterator and the hidden end and step
\* locals (a3), then start, end and step are evaluated and stored
CompileFor(cs, stmt) ==
    LET iter_idx == AllocLocal(cs, stmt.name).locals[stmt.name]
        a3 == AllocLocal(AllocLocal(AllocLocal(cs, stmt.name), ForEndName(iter_idx)),
                         ForStepName(iter_idx))
        ix == [iter |-> iter_idx,
               end |-> a3.locals[ForEndName(iter_idx)],
               step |-> a3.locals[ForStepName(iter_idx)]]
    IN CompileForCheck(
           Emit(CompileForStep(Emit(CompileExpr(Emit(CompileExpr(a3, stmt.start),
                                                     "STORE_LOCAL", ix.iter),
                                                stmt.end),
                                    "STORE_LOCAL", ix.end),
                               stmt.step),
                "STORE_LOCAL", ix.step),
           stmt, ix)

\* fused counting loop, after _alloc_local (c1):
\* JUMP_IF_GE_LOCAL_IMM (idx, imm, exit); INC_LOCAL idx; JUMP start; the jump is
\* patched to the exit and the rest of the body is compiled after the loop, with
\* no loop context
CompileFused(c1, stmt, var_name, start_ip) ==
    LET local_idx == c1.locals[var_name]
        imm_value == stmt.body.body[1].condition.right.value
        c2 == Emit(Emit(Emit(c1, "JUMP_IF_GE_LOCAL_IMM", <<local_idx, imm_value, -1>>),
                        "INC_LOCAL", local_idx),
                   "JUMP", start_ip)
    IN CompileStmts(PatchJump(c2, Here(c1), <<local_idx, imm_value, Here(c2)>>),
                    SubSeq(stmt.body.body, 3, Len(stmt.body.body)))

\* the LoopStmt case of _compile_stmt: fused counting loop, else the plain lowering
CompileLoop(cs, stmt) ==
    LET var_name == stmt.body.body[1].condition.left.name
    IN IF FusionPattern(stmt) /\ (var_name \in DOMAIN cs.locals \/ InFunction(cs))
       THEN CompileFused(AllocLocal(cs, var_name), stmt, var_name, Here(cs))
       ELSE EndLoop(Emit(CompileStmt(PushLoop(cs, Here(cs)), stmt.body), "JUMP", Here(cs)),
                    <<>>)

\* LetStmt, after the initializer (c1)
CompileLetStore(c1, name) ==
    IF InFunction(c1)
    THEN Emit(AllocLocal(c1, name), "STORE_LOCAL", AllocLocal(c1, name).locals[name])
    ELSE Emit(c1, "STORE_GLOBAL", name)

\* IfStmt, after the then branch (c2): JUMP done; jfalse lands on the else branch
CompileIfElse(c2, stmt, jfalse) ==
    PatchHere(IF stmt.else_branch.k # "NoNode"
              THEN CompileStmt(PatchHere(EmitJump(c2, "JUMP"), jfalse), stmt.else_branch)
              ELSE PatchHere(EmitJump(c2, "JUMP"), jfalse),
              Here(c2))

\* IfStmt, after the condition (c1)
CompileIfThen(c1, stmt) ==
    CompileIfElse(CompileStmt(EmitJump(c1, "JUMP_IF_FALSE"), stmt.then_branch), stmt, Here(c1))

\* FunctionStmt, given the sub-compiler of compile_function
CompileMakeFunction(cs, sub, name) ==
    IF sub.err # "" THEN Raise(cs, sub.err)
    ELSE Emit(Emit(AddConst(cs, CodeOf(sub)), "MAKE_FUNCTION",
                   <<"CODE", Len(cs.consts), name, sub.argcount, sub.next_local>>),
              "STORE_GLOBAL", name)

\* Compiler._compile_stmt
CompileStmt(cs, stmt) ==
    IF cs.err # "" THEN cs
    ELSE IF stmt.k = "BlockStmt" THEN CompileStmts(cs, stmt.body)
    ELSE IF stmt.k = "LetStmt" THEN
        CompileLetStore(IF stmt.initializer.k = "NoNode" THEN EmitConst(cs, None)
                        ELSE CompileExpr(cs, stmt.initializer),
                        stmt.name)
    ELSE IF stmt.k = "ExprStmt" THEN Emit(CompileExpr(cs, stmt.expr), "POP", None)
    ELSE IF stmt.k = "IfStmt" THEN CompileIfThen(CompileExpr(cs, stmt.condition), stmt)
    ELSE IF stmt.k = "WhileStmt" THEN CompileWhile(cs, stmt)
    ELSE IF stmt.k = "ForStmt" THEN CompileFor(cs, stmt)
    ELSE IF stmt.k = "LoopStmt" THEN CompileLoop(cs, stmt)
    ELSE IF stmt.k = "FunctionStmt" THEN
        CompileMakeFunction(cs, CompileFunction(stmt), stmt.name)
    ELSE IF stmt.k = "ReturnStmt" THEN
        Emit(IF stmt.value.k # "NoNode" THEN CompileExpr(cs, stmt.value)
             ELSE EmitConst(cs, None),
             "RETURN", None)
    ELSE IF stmt.k = "BreakStmt" THEN
        IF cs.loop_stack = <<>> THEN Raise(cs, "'break' used outside loop")
        ELSE [EmitJump(cs, "JUMP") EXCEPT
                 !.loop_stack[Len(cs.loop_stack)].break_positions = Append(@, Here(cs))]
    ELSE Raise(cs, "Unhandled statement type in compiler")

\* Compiler.compile_module on a freshly constructed Compiler
CompileModule(stmts, name) ==
    Emit(EmitConst(CompileStmts(NewCompiler(name), stmts), None), "RETURN", None)

\* compile_module on a Compiler that has been used before: every attribute is set
\* anew except loop_stack
CompileModuleOn(loop_stack, stmts, name) ==
    Emit(EmitConst(CompileStmts([NewCompiler(name) EXCEPT !.loop_stack = loop_stack], stmts),
                   None),
         "RETURN", None)

(***************************************************************************)
(* Builtins (builtins.py).  BUILTINS is the mapping both executors seed     *)
(* their globals from; `show` is defined in the module but is not one of    *)
(* its keys.                                                               *)
(***************************************************************************)
BUILTINS ==
    {"list", "tuple", "dict", "set", "array", "len", "range", "typeOf", "assert", "exit",
     "readFile", "writeFile", "toString", "regexMatchDict", "regexSearch", "regexFindAll",
     "globMatch", "matchPattern"}

RECURSIVE JoinDisplay(_)
\* " ".join(_to_display(a) for a in args)
JoinDisplay(args) ==
    IF args = <<>> THEN ""
    ELSE IF Len(args) = 1 THEN ToStringImpl(args[1])
    ELSE ToStringImpl(args[1]) \o " " \o JoinDisplay(Tail(args))

\* builtins.typeOf on the modelled values
TypeOf(v) ==
    IF v.t = "null" THEN "null"
    ELSE IF v.t = "bool" THEN "boolean"
    ELSE IF v.t = "int" THEN "number"
    ELSE IF v.t = "str" THEN "string"
    ELSE IF v.t = "native" THEN "function"
    ELSE "object"

\* the natives the modelled programs call: [ok, val, line]; line is what is printed
NativeCall(name, args) ==
    IF name = "show" THEN [ok |-> TRUE, val |-> None, prints |-> <<JoinDisplay(args)>>]
    ELSE IF name = "toString" /\ Len(args) = 1
        THEN [ok |-> TRUE, val |-> StrV(ToStringImpl(args[1])), prints |-> <<>>]
    ELSE IF name = "typeOf" /\ Len(args) = 1
        THEN [ok |-> TRUE, val |-> StrV(TypeOf(args[1])), prints |-> <<>>]
    ELSE [ok |-> FALSE, val |-> None, prints |-> <<>>]

(***************************************************************************)
(* Environment (env.py).  Environments live in a heap (a sequence); an     *)
(* environment is named by its index, parent 0 is Python's None.           *)
(***************************************************************************)
NoValues == [n \in {} |-> None]

\* Environment.__init__; is_function_scope is the attribute interpreter.py sets
Environment(parent, isfn) ==
    [values |-> NoValues, consts |-> {}, types |-> NoValues, parent |-> parent,
     is_function_scope |-> isfn]

\* Environment._value_matches_type, for the scalar and list type names
ValueMatchesType(value, expected) ==
    IF expected \in {"any", "object"} THEN TRUE
    ELSE IF value = None THEN expected \in {"null", "none"}
    ELSE IF expected \in {"int", "number"} THEN value.t = "int"
    ELSE IF expected \in {"bool", "boolean"} THEN value.t = "bool"
    ELSE IF expected \in {"str", "string"} THEN value.t = "str"
    ELSE IF expected = "list" THEN value.t = "list"
    ELSE FALSE

\* Environment.define as every caller in interpreter.py calls it: type_name is left
\* at its default None, so types is not written
Define(heap, e, name, value, is_const) ==
    [heap EXCEPT ![e].values = [n \in (DOMAIN @) \cup {name} |->
                                   IF n = name THEN value ELSE @[n]],
                 ![e].consts = IF is_const THEN @ \cup {name} ELSE @]

RECURSIVE Lookup(_, _, _)
\* the environment of the chain from e that binds name, 0 if none does
Lookup(heap, e, name) ==
    IF e = 0 THEN 0
    ELSE IF name \in DOMAIN heap[e].values THEN e
    ELSE Lookup(heap, heap[e].parent, name)

\* Environment.get: [ok, val]; not ok is NameError
Get(heap, e, name) ==
    LET d == Lookup(heap, e, name)
    IN IF d = 0 THEN [ok |-> FALSE, val |-> None]
       ELSE [ok |-> TRUE, val |-> heap[d].values[name]]

\* Environment.assign: [ok, heap]; not ok is NameError (undefined, constant or
\* type mismatch)
EnvAssign(heap, e, name, value) ==
    LET d == Lookup(heap, e, name)
    IN IF d = 0 THEN [ok |-> FALSE, heap |-> heap]
       ELSE IF name \in heap[d].consts THEN [ok |-> FALSE, heap |-> heap]
       ELSE IF name \in DOMAIN heap[d].types
                  /\ ~ValueMatchesType(value, heap[d].types[name])
            THEN [ok |-> FALSE, heap |-> heap]
       ELSE [ok |-> TRUE, heap |-> [heap EXCEPT ![d].values[name] = value]]

(***************************************************************************)
(* Tree interpreter (interpreter.py).  An interpreter state is             *)
(* [heap, loop_depth, out, fuel]: the environments, Interpreter._loop_depth,*)
(* the lines printed so far, and the remaining evaluation budget.  A       *)
(* result is [I, sig, val]: sig is "ok", "return" (_ReturnSignal, val is   *)
(* its value), "break" (_BreakSignal), "error" (InterpreterError or any    *)
(* other exception) or "fuel" (budget exhausted: the run does not end      *)
(* within the bound).                                                      *)
(***************************************************************************)
R(I, sig, val) == [I |-> I, sig |-> sig, val |-> val]

\* Interpreter._function_env: nearest function scope, else the globals (heap[1])
RECURSIVE FunctionEnvFrom(_, _)
FunctionEnvFrom(heap, e) ==
    IF e = 0 THEN 1
    ELSE IF heap[e].is_function_scope THEN e
    ELSE FunctionEnvFrom(heap, heap[e].parent)

\* Python arithmetic and comparison of the interpreter's Binary case and of the
\* VM's arithmetic handlers: [ok, val]; not ok is a raised exception.
\* Not modelled (no program of the model uses them): "/" (float result),
\* "%" with a negative divisor, string repetition and string ordering.
BinaryOp(op, a, b) ==
    IF op = "+" THEN
        IF a.t = "str" \/ b.t = "str"
        THEN [ok |-> TRUE, val |-> StrV(ToStringImpl(a) \o ToStringImpl(b))]
        ELSE IF IsNum(a) /\ IsNum(b) THEN [ok |-> TRUE, val |-> IntV(Num(a) + Num(b))]
        ELSE [ok |-> FALSE, val |-> None]
    ELSE IF op \in {"-", "*", "%"} THEN
        IF IsNum(a) /\ IsNum(b) /\ (op = "%" => Num(b) > 0)
        THEN [ok |-> TRUE,
              val |-> IntV(CASE op = "-" -> Num(a) - Num(b)
                             [] op = "*" -> Num(a) * Num(b)
                             [] op = "%" -> Num(a) % Num(b))]
        ELSE [ok |-> FALSE, val |-> None]
    ELSE IF op = "==" THEN [ok |-> TRUE, val |-> BoolV(PyEq(a, b))]
    ELSE IF op = "!=" THEN [ok |-> TRUE, val |-> BoolV(~PyEq(a, b))]
    ELSE IF op \in {"<", "<=", ">", ">="} THEN
        IF IsNum(a) /\ IsNum(b)
        THEN [ok |-> TRUE,
              val |-> BoolV(CASE op = "<" -> Num(a) < Num(b)
                              [] op = "<=" -> Num(a) <= Num(b)
                              [] op = ">" -> Num(a) > Num(b)
                              [] op = ">=" -> Num(a) >= Num(b))]
        ELSE [ok |-> FALSE, val |-> None]
    ELSE [ok |-> FALSE, val |-> None]

NewEnv(I, parent, isfn) == [I EXCEPT !.heap = Append(@, Environment(parent, isfn))]

RECURSIVE DefineAll(_, _, _, _)
\* for name, val in zip(params, args): local.define(name, val)
DefineAll(heap, e, params, args) ==
    IF params = <<>> \/ args = <<>> THEN heap
    ELSE DefineAll(Define(heap, e, Head(params), Head(args), FALSE), e,
                   Tail(params), Tail(args))

RECURSIVE Eval(_, _, _), Execute(_, _, _), ExecuteAll(_, _, _), EvalAll(_, _, _, _)
RECURSIVE CallFunction(_, _, _), WhileLoop(_, _, _), ForLoop(_, _, _, _, _), LoopLoop(_, _, _)
RECURSIVE CallFunctionAst(_, _, _)
RECURSIVE MatchPattern(_, _, _, _), MatchElements(_, _, _, _)
RECURSIVE MatchArms(_, _, _, _, _), EvaluateArm(_, _, _, _)

\* after one statement of a list (r): an exception or signal ends the list
ExecuteRest(r, rest, env) == IF r.sig # "ok" THEN r ELSE ExecuteAll(r.I, rest, env)

\* for s in stmts: self._execute(s, env)
ExecuteAll(I, stmts, env) ==
    IF stmts = <<>> THEN R(I, "ok", None)
    ELSE ExecuteRest(Execute(I, Head(stmts), env), Tail(stmts), env)

EvalRest(r, rest, env, acc) ==
    IF r.sig # "ok" THEN r ELSE EvalAll(r.I, rest, env, Append(acc, r.val))

\* [self._eval(a, env) for a in exprs]; val is the list of values
EvalAll(I, exprs, env, acc) ==
    IF exprs = <<>> THEN R(I, "ok", acc)
    ELSE EvalRest(Eval(I, Head(exprs), env), Tail(exprs), env, acc)

\* the call's environment (the newest of I1) gets the parameters and, for a named
\* function, the function's own name as a const
BindCall(I1, params, args, name, self) ==
    [I1 EXCEPT !.heap =
        IF name # ""
        THEN Define(DefineAll(@, Len(I1.heap), params, args), Len(I1.heap), name, self, TRUE)
        ELSE DefineAll(@, Len(I1.heap), params, args)]

\* except _ReturnSignal as r: return r.value; falling off the end returns None
CallResult(r) ==
    IF r.sig = "return" THEN R(r.I, "ok", r.val)
    ELSE IF r.sig = "ok" THEN R(r.I, "ok", None)
    ELSE r

\* Function.call
CallFunction(I, f, args) ==
    IF Len(args) # Len(f.params) THEN R(I, "error", None)
    ELSE IF I.fuel = 0 THEN R(I, "fuel", None)
    ELSE CallResult(ExecuteAll(BindCall(NewEnv([I EXCEPT !.fuel = @ - 1], f.closure, TRUE),
                                        f.params, args, f.fn_name, f),
                               f.body.body, Len(I.heap) + 1))

\* Interpreter.call_function_ast: the AST node carries no closure_env, so the
\* parent of the call's environment is the interpreter's globals (heap[1])
CallFunctionAst(I, func_node, args) ==
    IF I.fuel = 0 THEN R(I, "fuel", None)
    ELSE CallResult(ExecuteAll(BindCall(NewEnv([I EXCEPT !.fuel = @ - 1], 1, FALSE),
                                        func_node.params, args, func_node.name,
                                        RecurWrapper(func_node)),
                               func_node.body.body, Len(I.heap) + 1))

\* Unary, after the operand (r)
EvalUnary(r, op) ==
    IF r.sig # "ok" THEN r
    ELSE IF op = "!" THEN R(r.I, "ok", BoolV(~IsTruthy(r.val)))
    ELSE IF op = "-" /\ IsNum(r.val) THEN R(r.I, "ok", IntV(0 - Num(r.val)))
    ELSE R(r.I, "error", None)

\* the result of an operation b = [ok, val] in interpreter state I
ResultOf(I, b) == IF b.ok THEN R(I, "ok", b.val) ELSE R(I, "error", None)

\* arithmetic and comparison, after the right operand (rr)
EvalBinaryOp(rr, op, left_val) ==
    IF rr.sig # "ok" THEN rr ELSE ResultOf(rr.I, BinaryOp(op, left_val, rr.val))

\* Binary, after the left operand (l): && and || return an operand's value
EvalBinary(l, expr, env) ==
    IF l.sig # "ok" THEN l
    ELSE IF expr.op = "&&" THEN
        IF ~IsTruthy(l.val) THEN l ELSE Eval(l.I, expr.right, env)
    ELSE IF expr.op = "||" THEN
        IF IsTruthy(l.val) THEN l ELSE Eval(l.I, expr.right, env)
    ELSE EvalBinaryOp(Eval(l.I, expr.right, env), expr.op, l.val)

\* Assign, after the value (r): env.assign succeeds or raises
EvalAssign(r, expr, env) ==
    LET a == EnvAssign(r.I.heap, env, expr.target.name, r.val)
    IN IF r.sig # "ok" THEN r
       ELSE IF expr.target.k # "Variable" THEN R(r.I, "error", None)
       ELSE IF a.ok THEN R([r.I EXCEPT !.heap = a.heap], "ok", r.val)
       ELSE R(r.I, "error", None)

\* Call, after the arguments (a); what a native prints goes to stdout
EvalApply(a, callee) ==
    LET n == NativeCall(callee.native, a.val)
    IN IF a.sig # "ok" THEN a
       ELSE IF callee.t = "Function" THEN CallFunction(a.I, callee, a.val)
       ELSE IF callee.t = "recur" THEN CallFunctionAst(a.I, callee.ast_node, a.val)
       ELSE IF callee.t # "native" THEN R(a.I, "error", None)
       ELSE IF n.ok THEN R([a.I EXCEPT !.out = @ \o n.prints], "ok", n.val)
       ELSE R(a.I, "error", None)

\* Call, after the callee (c)
EvalCall(c, expr, env) ==
    IF c.sig # "ok" THEN c ELSE EvalApply(EvalAll(c.I, expr.arguments, env, <<>>), c.val)

\* ListLiteral, after the elements (a)
EvalList(a) == IF a.sig # "ok" THEN a ELSE R(a.I, "ok", ListV(a.val))

\* _match_pattern, ListPattern: the zip loop.  m is [I, env], the result of the last
\* sub-pattern (env 0 is None); every sub-pattern is matched against match_env, and
\* of its result only `is None` is looked at
MatchElements(m, items, elements, match_env) ==
    IF m.env = 0 THEN m
    ELSE IF items = <<>> THEN [I |-> m.I, env |-> match_env]
    ELSE MatchElements(MatchPattern(m.I, Head(items), Head(elements), match_env),
                       Tail(items), Tail(elements), match_env)

\* Interpreter._match_pattern: [I, env], env the returned environment, 0 for None.
\* Not modelled (no program of the model uses them): type, tuple, dict and or patterns.
MatchPattern(I, value, pattern, env) ==
    IF pattern.k = "WildcardPattern" THEN [I |-> I, env |-> env]
    ELSE IF pattern.k = "LiteralPattern" THEN
        [I |-> I, env |-> IF PyEq(value, pattern.value) THEN env ELSE 0]
    ELSE IF pattern.k = "VariablePattern" THEN
        [I |-> [I EXCEPT !.heap = Define(@, env, pattern.name, value, FALSE)], env |-> env]
    ELSE IF pattern.k = "ListPattern" THEN
        IF value.t # "list" THEN [I |-> I, env |-> 0]
        ELSE IF Len(value.items) # Len(pattern.elements) THEN [I |-> I, env |-> 0]
        ELSE MatchElements([I |-> NewEnv(I, env, FALSE), env |-> Len(I.heap) + 1],
                           value.items, pattern.elements, Len(I.heap) + 1)
    ELSE [I |-> I, env |-> 0]

\* _evaluate_match, after one statement of the arm's body (r)
EvaluateArmRest(r, is_expr_stmt, rest, env, result) ==
    IF r.sig # "ok" THEN r
    ELSE EvaluateArm(r.I, rest, env, IF is_expr_stmt THEN r.val ELSE result)

\* _evaluate_match: for stmt in arm.body.body, result is the last ExprStmt's value
EvaluateArm(I, stmts, env, result) ==
    IF stmts = <<>> THEN R(I, "ok", result)
    ELSE EvaluateArmRest(IF Head(stmts).k = "ExprStmt" THEN Eval(I, Head(stmts).expr, env)
                         ELSE Execute(I, Head(stmts), env),
                         Head(stmts).k = "ExprStmt", Tail(stmts), env, result)

\* the body of the arm that was chosen, in the environment of its match
MatchBody(I, arm, match_result, is_expr) ==
    IF is_expr THEN EvaluateArm(I, arm.body.body, match_result, None)
    ELSE Execute(I, arm.body, match_result)

\* an arm whose guard is not looked at: the body runs whenever the pattern matched
MatchUnguarded(g, arm, match_result, value, rest, env, is_expr) ==
    IF g.sig # "ok" THEN g ELSE MatchBody(g.I, arm, match_result, is_expr)

\* an arm, after its guard (g): a falsy guard goes on with the next arm
MatchGuard(g, arm, match_result, value, rest, env, is_expr) ==
    IF g.sig # "ok" THEN g
    ELSE IF ~IsTruthy(g.val) THEN MatchArms(g.I, value, rest, env, is_expr)
    ELSE MatchBody(g.I, arm, match_result, is_expr)

\* an arm, after its pattern (m)
MatchArm(m, arm, value, rest, env, is_expr) ==
    IF m.env = 0 THEN MatchArms(m.I, value, rest, env, is_expr)
    ELSE IF arm.guard.k # "NoNode"
        THEN MatchGuard(Eval(m.I, arm.guard, m.env), arm, m.env, value, rest, env, is_expr)
    ELSE MatchBody(m.I, arm, m.env, is_expr)

\* Interpreter._execute_match (is_expr false) and _evaluate_match (is_expr true):
\* for arm in arms; no arm left is a no-op, or None
MatchArms(I, value, arms, env, is_expr) ==
    IF arms = <<>> THEN R(I, "ok", None)
    ELSE MatchArm(MatchPattern(I, value, Head(arms).pattern, env), Head(arms), value,
                  Tail(arms), env, is_expr)

\* MatchStmt and MatchExpr, after the subject (r)
MatchValue(r, arms, env, is_expr) ==
    IF r.sig # "ok" THEN r ELSE MatchArms(r.I, r.val, arms, env, is_expr)

\* Interpreter._eval
Eval(I, expr, env) ==
    IF expr.k = "Literal" THEN R(I, "ok", expr.value)
    ELSE IF expr.k = "Variable" THEN ResultOf(I, Get(I.heap, env, expr.name))
    ELSE IF expr.k = "Grouping" THEN Eval(I, expr.expression, env)
    ELSE IF expr.k = "Unary" THEN EvalUnary(Eval(I, expr.operand, env), expr.op)
    ELSE IF expr.k = "Binary" THEN EvalBinary(Eval(I, expr.left, env), expr, env)
    ELSE IF expr.k = "Assign" THEN EvalAssign(Eval(I, expr.value, env), expr, env)
    ELSE IF expr.k = "FunctionExpr" THEN
        R(I, "ok", Function(expr.name, expr.params, expr.body, env))
    ELSE IF expr.k = "Call" THEN EvalCall(Eval(I, expr.callee, env), expr, env)
    ELSE IF expr.k = "ListLiteral" THEN EvalList(EvalAll(I, expr.elements, env, <<>>))
    ELSE IF expr.k = "MatchExpr" THEN MatchValue(Eval(I, expr.value, env), expr.arms, env, TRUE)
    ELSE R(I, "error", None)

\* WhileStmt, after the body (b)
WhileNext(b, stmt, env) == IF b.sig # "ok" THEN b ELSE WhileLoop(b.I, stmt, env)

\* WhileStmt, after the condition (c)
WhileTest(c, stmt, env) ==
    IF c.sig # "ok" THEN c
    ELSE IF ~IsTruthy(c.val) THEN R(c.I, "ok", None)
    ELSE IF c.I.fuel = 0 THEN R(c.I, "fuel", None)
    ELSE WhileNext(Execute([c.I EXCEPT !.fuel = @ - 1], stmt.body, env), stmt, env)

\* the while loop of the WhileStmt case: no loop depth, no _BreakSignal handler
WhileLoop(I, stmt, env) == WhileTest(Eval(I, stmt.condition, env), stmt, env)

\* ForStmt, after the body (b): _BreakSignal ends the loop, else
\* loop_env.assign(name, cur + step_val)
ForNext(b, stmt, loop_env, end_val, step_val) ==
    LET cur == Get(b.I.heap, loop_env, stmt.name).val
        sum == IF IsNum(cur) THEN BinaryOp("+", cur, step_val)
               ELSE [ok |-> FALSE, val |-> None]
        a == EnvAssign(b.I.heap, loop_env, stmt.name, sum.val)
    IN IF b.sig = "break" THEN R(b.I, "ok", None)
       ELSE IF b.sig # "ok" THEN b
       ELSE IF ~sum.ok \/ ~a.ok THEN R(b.I, "error", None)
       ELSE ForLoop([b.I EXCEPT !.heap = a.heap], stmt, loop_env, end_val, step_val)

\* a counting loop that stops one short of its end value: strict comparisons where
\* _cond has <= and >=
ForLoopExclusive(I, stmt, loop_env, end_val, step_val) ==
    LET cond == BinaryOp(IF Num(step_val) > 0 THEN "<" ELSE ">",
                         Get(I.heap, loop_env, stmt.name).val, end_val)
    IN IF ~cond.ok THEN R(I, "error", None)
       ELSE IF ~cond.val.b THEN R(I, "ok", None)
       ELSE IF I.fuel = 0 THEN R(I, "fuel", None)
       ELSE ForNext(ExecuteAll([I EXCEPT !.fuel = @ - 1], stmt.body.body, loop_env),
                    stmt, loop_env, end_val, step_val)

\* the while loop of the ForStmt case (interpreter.py 191-206); cond is _cond
ForLoop(I, stmt, loop_env, end_val, step_val) ==
    LET cond == BinaryOp(IF Num(step_val) > 0 THEN "<=" ELSE ">=",
                         Get(I.heap, loop_env, stmt.name).val, end_val)
    IN IF ~cond.ok THEN R(I, "error", None)
       ELSE IF ~cond.val.b THEN R(I, "ok", None)
       ELSE IF I.fuel = 0 THEN R(I, "fuel", None)
       ELSE ForNext(ExecuteAll([I EXCEPT !.fuel = @ - 1], stmt.body.body, loop_env),
                    stmt, loop_env, end_val, step_val)

\* LoopStmt, after the body (b): _BreakSignal ends the loop
LoopNext(b, stmt, loop_env) ==
    IF b.sig = "break" THEN R(b.I, "ok", None)
    ELSE IF b.sig # "ok" THEN b
    ELSE LoopLoop(b.I, stmt, loop_env)

\* the while True loop of the LoopStmt case
LoopLoop(I, stmt, loop_env) ==
    IF I.fuel = 0 THEN R(I, "fuel", None)
    ELSE LoopNext(ExecuteAll([I EXCEPT !.fuel = @ - 1], stmt.body.body, loop_env),
                  stmt, loop_env)

\* a loop statement that leaves the loop depth as the body left it
LeaveLoopKept(r) == r

\* try: ... finally: self._loop_depth -= 1
LeaveLoop(r) == [r EXCEPT !.I.loop_depth = @ - 1]

\* ExprStmt, after the expression (r): its value is dropped
ExecuteExpr(r) == IF r.sig = "ok" THEN R(r.I, "ok", None) ELSE r

\* LetStmt, after the initializer (r): var goes to the function scope
ExecuteLet(r, stmt, env) ==
    IF r.sig # "ok" THEN r
    ELSE R([r.I EXCEPT !.heap =
                Define(@, IF stmt.is_var THEN FunctionEnvFrom(r.I.heap, env) ELSE env,
                       stmt.name, r.val, stmt.is_const)],
           "ok", None)

\* IfStmt, after the condition (c)
ExecuteIf(c, stmt, env) ==
    IF c.sig # "ok" THEN c
    ELSE IF IsTruthy(c.val) THEN Execute(c.I, stmt.then_branch, env)
    ELSE IF stmt.else_branch.k # "NoNode" THEN Execute(c.I, stmt.else_branch, env)
    ELSE R(c.I, "ok", None)

\* ForStmt, after the step (st): the loop environment I1 with the iterator defined
ExecuteForStep(st, stmt, env, start_val, end_val) ==
    LET I1 == [st.I EXCEPT !.heap = Define(Append(@, Environment(env, FALSE)), Len(@) + 1,
                                           stmt.name, start_val, FALSE)]
    IN IF st.sig # "ok" THEN st
       ELSE IF ~IsNum(st.val) THEN R(I1, "error", None)
       ELSE IF Num(st.val) = 0 THEN R(I1, "error", None)
       ELSE LeaveLoop(ForLoop([I1 EXCEPT !.loop_depth = @ + 1], stmt, Len(I1.heap),
                              end_val, st.val))

\* ForStmt, after the end (e)
ExecuteForEnd(e, stmt, env, start_val) ==
    IF e.sig # "ok" THEN e
    ELSE ExecuteForStep(IF stmt.step.k # "NoNode" THEN Eval(e.I, stmt.step, env)
                        ELSE R(e.I, "ok", IntV(1)),
                        stmt, env, start_val, e.val)

\* ForStmt, after the start (s)
ExecuteForStart(s, stmt, env) ==
    IF s.sig # "ok" THEN s ELSE ExecuteForEnd(Eval(s.I, stmt.end, env), stmt, env, s.val)

\* ReturnStmt, after the value (r): raise _ReturnSignal(value)
ExecuteReturn(r) == IF r.sig # "ok" THEN r ELSE R(r.I, "return", r.val)

\* Interpreter._execute
Execute(I, stmt, env) ==
    IF stmt.k = "ExprStmt" THEN ExecuteExpr(Eval(I, stmt.expr, env))
    ELSE IF stmt.k = "LetStmt" THEN
        ExecuteLet(IF stmt.initializer.k # "NoNode" THEN Eval(I, stmt.initializer, env)
                   ELSE R(I, "ok", None),
                   stmt, env)
    ELSE IF stmt.k = "BlockStmt" THEN
        ExecuteAll(NewEnv(I, env, FALSE), stmt.body, Len(I.heap) + 1)
    ELSE IF stmt.k = "IfStmt" THEN ExecuteIf(Eval(I, stmt.condition, env), stmt, env)
    ELSE IF stmt.k = "WhileStmt" THEN WhileLoop(I, stmt, env)
    ELSE IF stmt.k = "BreakStmt" THEN
        IF I.loop_depth <= 0 THEN R(I, "error", None) ELSE R(I, "break", None)
    ELSE IF stmt.k = "ForStmt" THEN ExecuteForStart(Eval(I, stmt.start, env), stmt, env)
    ELSE IF stmt.k = "LoopStmt" THEN
        LeaveLoop(LoopLoop([NewEnv(I, env, FALSE) EXCEPT !.loop_depth = @ + 1],
                           stmt, Len(I.heap) + 1))
    ELSE IF stmt.k = "FunctionStmt" THEN
        R([I EXCEPT !.heap = Define(@, env, stmt.name,
                                    Function(stmt.name, stmt.params, stmt.body, env), FALSE)],
          "ok", None)
    ELSE IF stmt.k = "ReturnStmt" THEN
        ExecuteReturn(IF stmt.value.k # "NoNode" THEN Eval(I, stmt.value, env)
                      ELSE R(I, "ok", None))
    ELSE IF stmt.k = "MatchStmt" THEN
        MatchValue(Eval(I, stmt.value, env), stmt.arms, env, FALSE)
    ELSE R(I, "error", None)

RECURSIVE HoistVars(_, _, _)
\* Interpreter._hoist_vars
HoistVars(heap, stmts, env) ==
    IF stmts = <<>> THEN heap
    ELSE LET stmt == Head(stmts)
             func_env == FunctionEnvFrom(heap, env)
             h1 == IF stmt.k = "LetStmt" /\ stmt.is_var
                      /\ stmt.name \notin DOMAIN heap[func_env].values
                   THEN Define(heap, func_env, stmt.name, None, FALSE)
                   ELSE heap
             h2 == IF stmt.k = "BlockStmt" THEN HoistVars(h1, stmt.body, env) ELSE h1
         IN HoistVars(h2, Tail(stmts), env)

RECURSIVE DefineNatives(_, _, _)
DefineNatives(heap, names, is_const) ==
    IF names = {} THEN heap
    ELSE LET n == CHOOSE x \in names : TRUE
         IN DefineNatives(Define(heap, 1, n, NativeV(n), is_const), names \ {n}, is_const)

\* Interpreter.__init__: globals holds every key of the builtins mapping as a const
NewInterpreter(builtins, fuel) ==
    [heap |-> DefineNatives(<<Environment(0, FALSE)>>, builtins, TRUE),
     loop_depth |-> 0, out |-> <<>>, fuel |-> fuel]

(***************************************************************************)
(* Bytecode VM (vm.py).  One VMStep is one turn of run_frame's dispatch    *)
(* loop in the innermost frame.                                            *)
(***************************************************************************)
\* Frame(code, globals_, locals_); globals_ is a reference: the index of a dict in
\* the list VMState.globals
Frame(code, globals_, locals_) ==
    [code |-> code, ip |-> 0, stack |-> <<>>, locals |-> locals_, globals |-> globals_]

NoneList(n) == [i \in 1..n |-> None]

\* VM.__init__: self.globals[k] = v for every key of the builtins mapping
VMGlobals(builtins) == [n \in builtins |-> NativeV(n)]

\* locals_local.extend([None] * (idx - len(locals_local) + 1)) when idx >= len
Extend(locals, idx) ==
    IF idx >= Len(locals) THEN locals \o NoneList(idx - Len(locals) + 1) ELSE locals

\* locals that take every argument there is a slot for, argcount or not
NewLocalsUnbounded(subcode, args) ==
    [i \in 1..subcode.nlocals |-> IF i <= Len(args) THEN args[i] ELSE None]

\* h_call: new_locals for a code-backed callee
NewLocals(subcode, args) ==
    [i \in 1..subcode.nlocals |->
        IF i <= Len(args) /\ i <= subcode.argcount THEN args[i] ELSE None]

VMBinOps ==
    [x \in {"ADD", "SUB", "MUL", "MOD", "EQ", "NEQ", "LT", "LTE", "GT", "GTE"} |->
        CASE x = "ADD" -> "+" [] x = "SUB" -> "-" [] x = "MUL" -> "*" [] x = "MOD" -> "%"
          [] x = "EQ" -> "==" [] x = "NEQ" -> "!=" [] x = "LT" -> "<" [] x = "LTE" -> "<="
          [] x = "GT" -> ">" [] x = "GTE" -> ">="]

\* the VM: frames (innermost last), the globals dicts of the run, the fallback
\* interpreter (its `out` is the stdout of the whole VM run), status and result
VMState(frames, globals, interpreter, status, result) ==
    [frames |-> frames, globals |-> globals, interpreter |-> interpreter,
     status |-> status, result |-> result]

\* VM.run_code: the top-level frame over globals_ = dict(self.globals), a copy.
\* The dicts of a run: the first is VM.globals, the second is the copy.
RunCode(code, builtins, fuel) ==
    VMState(<<Frame(code, 2, NoneList(code.nlocals))>>,
            <<VMGlobals(builtins), VMGlobals(builtins)>>,
            NewInterpreter(builtins, fuel), "running", None)

\* an exception leaves run_code: every frame is popped
VMError(vm) == [vm EXCEPT !.frames = <<>>, !.status = "error"]

\* a frame returns val: to run_code for the top-level frame, else h_call pushes it
VMReturn(vm, val) ==
    LET d == Len(vm.frames)
    IN IF d = 1 THEN [vm EXCEPT !.frames = <<>>, !.status = "done", !.result = val]
       ELSE [vm EXCEPT !.frames = [SubSeq(@, 1, d - 1) EXCEPT ![d - 1].stack = Append(@, val)]]

\* the instruction the dispatch loop fetches at ip < n_instrs (Python indexing:
\* a negative ip counts from the end)
Fetch(code, ip) ==
    code.instructions[(IF ip >= 0 THEN ip ELSE Len(code.instructions) + ip) + 1]

\* h_call through the interpreter, after it returned or raised (r); base is the
\* VM with the caller's frame (the d-th) advanced
VMCallInterpreted(base, d, r) ==
    IF r.sig = "ok"
    THEN [base EXCEPT !.interpreter = r.I, !.frames[d].stack = Append(@, r.val)]
    ELSE IF r.sig = "fuel"
    THEN [VMError(base) EXCEPT !.interpreter = r.I, !.status = "fuel"]
    ELSE [VMError(base) EXCEPT !.interpreter = r.I]

\* a callee frame over its own copy of the caller's globals dict
PushFrameCopy(base, globals_local, subcode, args) ==
    [base EXCEPT !.globals = Append(@, @[globals_local]),
                 !.frames = Append(@, Frame(subcode, Len(base.globals) + 1,
                                            NewLocals(subcode, args)))]

\* h_call, code-backed callee: new_frame = Frame(subcode, globals_local, new_locals)
\* is pushed; globals_local is the caller's frame.globals
PushFrame(base, globals_local, subcode, args) ==
    [base EXCEPT !.frames = Append(@, Frame(subcode, globals_local, NewLocals(subcode, args)))]

\* h_call, after args and callee have been popped from frame f (ip advanced): the
\* callee is code-backed (a new frame), AST-backed (the fallback interpreter runs
\* it) or a Python callable
VMCall(vm, f, callee, args) ==
    LET d == Len(vm.frames)
        base == [vm EXCEPT !.frames[d] = f]
        n == NativeCall(callee.native, args)
    IN IF callee.t = "fobj_code" THEN PushFrame(base, f.globals, callee.code, args)
       ELSE IF callee.t = "Function"
       THEN VMCallInterpreted(base, d, CallFunction(vm.interpreter, callee, args))
       ELSE IF callee.t \in {"fobj_ast", "recur"}
       THEN VMCallInterpreted(base, d, CallFunctionAst(vm.interpreter, callee.ast_node, args))
       ELSE IF callee.t # "native" THEN VMError(base)
       ELSE IF n.ok
       THEN [base EXCEPT !.interpreter.out = @ \o n.prints,
                         !.frames[d].stack = Append(@, n.val)]
       ELSE VMError(base)

\* one turn of the dispatch loop of run_frame in the innermost frame
VMExec(vm) ==
    LET d == Len(vm.frames)
        f == vm.frames[d]
        n_instrs == Len(f.code.instructions)
        ins == Fetch(f.code, f.ip)
        op == ins.op
        arg == ins.arg
        ip == f.ip + 1
        stack == f.stack
        sl == Len(stack)
        top == stack[sl]
        Popped(k) == SubSeq(stack, 1, sl - k)
        Cont(stk, locals, newip) ==
            [vm EXCEPT !.frames[d] = [f EXCEPT !.ip = newip, !.stack = stk, !.locals = locals]]
        Push(v) == Cont(Append(stack, v), f.locals, ip)
        b == BinaryOp(VMBinOps[op], stack[sl - 1], top)
        slot == IF arg < Len(f.locals) THEN f.locals[arg + 1] ELSE None
        ext == Extend(f.locals, arg)
        gval == IF arg[1] < Len(f.locals) /\ f.locals[arg[1] + 1].t # "null"
                THEN f.locals[arg[1] + 1] ELSE IntV(0)
        ge == BinaryOp(">=", gval, arg[2])
    IN IF f.ip >= n_instrs THEN VMReturn(vm, None)
       ELSE IF f.ip < 0 - n_instrs THEN VMError(vm)
       ELSE IF op = "LOAD_CONST" THEN Push(f.code.consts[arg + 1])
       ELSE IF op = "LOAD_GLOBAL" THEN
           Push(IF arg \in DOMAIN vm.globals[f.globals] THEN vm.globals[f.globals][arg]
                ELSE None)
       ELSE IF op = "STORE_GLOBAL" THEN
           IF sl = 0 THEN VMError(vm)
           ELSE [Cont(Popped(1), f.locals, ip) EXCEPT
                    !.globals[f.globals] =
                        [x \in (DOMAIN @) \cup {arg} |-> IF x = arg THEN top ELSE @[x]]]
       ELSE IF op = "LOAD_LOCAL" THEN Push(slot)
       ELSE IF op = "STORE_LOCAL" THEN
           IF sl = 0 THEN VMError(vm)
           ELSE Cont(Popped(1), [ext EXCEPT ![arg + 1] = top], ip)
       ELSE IF op = "POP" THEN
           IF sl = 0 THEN VMError(vm) ELSE Cont(Popped(1), f.locals, ip)
       ELSE IF op \in DOMAIN VMBinOps THEN
           IF sl < 2 THEN VMError(vm)
           ELSE IF b.ok THEN Cont(Append(Popped(2), b.val), f.locals, ip)
           ELSE VMError(vm)
       ELSE IF op = "NOT" THEN
           IF sl = 0 THEN VMError(vm)
           ELSE Cont(Append(Popped(1), BoolV(~IsTruthy(top))), f.locals, ip)
       ELSE IF op = "JUMP" THEN Cont(stack, f.locals, arg)
       ELSE IF op = "JUMP_IF_FALSE" THEN
           IF sl = 0 THEN VMError(vm)
           ELSE Cont(Popped(1), f.locals, IF IsTruthy(top) THEN ip ELSE arg)
       ELSE IF op = "MAKE_FUNCTION" THEN
           IF arg[1] = "AST" THEN Push(FunctionObjectAst(f.code.consts[arg[2] + 1]))
           ELSE Push(FunctionObjectCode(arg[3], f.code.consts[arg[2] + 1]))
       ELSE IF op = "CALL" THEN
           IF sl < arg + 1 THEN VMError(vm)
           ELSE VMCall(vm, [f EXCEPT !.ip = ip, !.stack = Popped(arg + 1)],
                       stack[sl - arg], SubSeq(stack, sl - arg + 1, sl))
       ELSE IF op = "RETURN" THEN VMReturn(vm, IF sl > 0 THEN top ELSE None)
       ELSE IF op = "INC_LOCAL" THEN
           IF ext[arg + 1].t = "null" THEN Cont(stack, [ext EXCEPT ![arg + 1] = IntV(1)], ip)
           ELSE IF IsNum(ext[arg + 1])
           THEN Cont(stack, [ext EXCEPT ![arg + 1] = IntV(Num(@) + 1)], ip)
           ELSE VMError(vm)
       ELSE IF op = "JUMP_IF_GE_LOCAL_IMM" THEN
           IF ~ge.ok THEN VMError(vm)
           ELSE Cont(stack, f.locals, IF ge.val.b THEN arg[3] ELSE ip)
       ELSE VMError(vm)

(***************************************************************************)
(* Type checker (type_checker.py).  A type is its name; None (no type) is  *)
(* "".  The checker is [scopes, functions, current_return_type]; a check   *)
(* result is [tc, err], an inference result [err, t]: err is TRUE when     *)
(* TypeCheckError is raised.  Union and generic type names, and the        *)
(* collection, member and subscript expressions, do not occur in the       *)
(* programs checked here.                                                  *)
(***************************************************************************)
NoType == ""

\* FunctionStmt with param_types and return_type given
FunctionStmtTyped(n, ps, b, pts, rt) ==
    [k |-> "FunctionStmt", name |-> n, params |-> ps, body |-> b, param_types |-> pts,
     return_type |-> rt]

\* FunctionExpr with param_types and return_type given
FunctionExprTyped(n, ps, b, pts, rt) ==
    [k |-> "FunctionExpr", name |-> n, params |-> ps, body |-> b, param_types |-> pts,
     return_type |-> rt]

\* the f"fn({len(params)})" type names
FnTypeNames == <<"fn(0)", "fn(1)", "fn(2)", "fn(3)">>

FnType(n) == FnTypeNames[n + 1]

\* FunctionSig
FunctionSig(params, param_types, return_type) ==
    [params |-> params, param_types |-> param_types, return_type |-> return_type]

\* TypeChecker.__init__
NewTypeChecker ==
    [scopes |-> <<NoValues>>, functions |-> NoValues, current_return_type |-> NoType]

\* TypeChecker._push
TCPush(tc) == [tc EXCEPT !.scopes = Append(@, NoValues)]

\* TypeChecker._pop
TCPop(tc) == [tc EXCEPT !.scopes = SubSeq(@, 1, Len(@) - 1)]

\* TypeChecker._define
TCDefine(tc, name, type_name) ==
    [tc EXCEPT !.scopes[Len(tc.scopes)] =
        [n \in (DOMAIN @) \cup {name} |-> IF n = name THEN type_name ELSE @[n]]]

RECURSIVE TCLookupFrom(_, _, _)
TCLookupFrom(scopes, i, name) ==
    IF i = 0 THEN NoType
    ELSE IF name \in DOMAIN scopes[i] THEN scopes[i][name]
    ELSE TCLookupFrom(scopes, i - 1, name)

\* TypeChecker._lookup: innermost scope first, NoType when unbound
TCLookup(tc, name) == TCLookupFrom(tc.scopes, Len(tc.scopes), name)

\* TypeChecker._compatible on plain type names
Compatible(actual, expected) ==
    \/ actual = expected
    \/ expected \in {"any", "object"}
    \/ actual \in {"int", "float"} /\ expected = "number"
    \/ actual \in {FnTypeNames[i] : i \in DOMAIN FnTypeNames} /\ expected = "function"

\* _infer_expr's Literal case on the modelled values
InferLiteral(value) ==
    IF value.t = "null" THEN "null"
    ELSE IF value.t = "bool" THEN "bool"
    ELSE IF value.t = "int" THEN "int"
    ELSE IF value.t = "str" THEN "string"
    ELSE "object"

TCNumeric == {"int", "float", "number", "any"}

Inferred(err, t) == [err |-> err, t |-> t]

\* _infer_expr's Unary case, the operand's type inferred
InferUnary(op, r) ==
    IF r.err THEN r
    ELSE IF op = "!" THEN Inferred(FALSE, "bool")
    ELSE IF op = "-" /\ r.t \notin TCNumeric THEN Inferred(TRUE, NoType)
    ELSE r

\* _infer_expr's Binary case, both operands' types inferred
InferBinary(op, l, r) ==
    IF l.err THEN l
    ELSE IF r.err THEN r
    ELSE IF op \in {"==", "!=", "<", "<=", ">", ">=", "&&", "||"} THEN Inferred(FALSE, "bool")
    ELSE IF op = "+" /\ (l.t = "string" \/ r.t = "string") THEN Inferred(FALSE, "string")
    ELSE IF op = "+" /\ l.t = "int" /\ r.t = "int" THEN Inferred(FALSE, "int")
    ELSE IF op = "+" /\ l.t \in TCNumeric /\ r.t \in TCNumeric
        THEN Inferred(FALSE, IF l.t = "float" \/ r.t = "float" THEN "float" ELSE "number")
    ELSE IF op \in {"-", "*", "/", "%"}
        THEN IF l.t \in TCNumeric /\ r.t \in TCNumeric
             THEN Inferred(FALSE, IF op = "/" /\ l.t = "int" /\ r.t = "int" THEN "float"
                                  ELSE IF l.t = "int" /\ r.t = "int" THEN "int"
                                  ELSE "number")
             ELSE Inferred(TRUE, NoType)
    ELSE Inferred(FALSE, "any")

\* _infer_expr's Assign case, the value's type inferred
InferAssign(tc, target, r) ==
    IF r.err THEN r
    ELSE IF target.k = "Variable"
        THEN IF TCLookup(tc, target.name) # NoType /\ ~Compatible(r.t, TCLookup(tc, target.name))
             THEN Inferred(TRUE, NoType)
             ELSE IF TCLookup(tc, target.name) # NoType
                  THEN Inferred(FALSE, TCLookup(tc, target.name))
                  ELSE r
    ELSE r

\* param_types.get(param, "any")
ParamType(param_types, param) ==
    IF param \in DOMAIN param_types THEN param_types[param] ELSE "any"

RECURSIVE InferExpr(_, _), InferArgs(_, _, _), InferCallArgs(_, _, _, _)

\* the loop over zip(arguments, sig.params) of the Call case
InferCallArgs(tc, sig, arguments, i) ==
    IF i > Len(arguments) THEN Inferred(FALSE, IF sig.return_type # NoType THEN sig.return_type
                                               ELSE "any")
    ELSE LET r == InferExpr(tc, arguments[i])
         IN IF r.err THEN r
            ELSE IF ~Compatible(r.t, ParamType(sig.param_types, sig.params[i]))
                THEN Inferred(TRUE, NoType)
            ELSE InferCallArgs(tc, sig, arguments, i + 1)

\* the loop over the arguments of a call of no known function
InferArgs(tc, arguments, i) ==
    IF i > Len(arguments) THEN Inferred(FALSE, "any")
    ELSE IF InferExpr(tc, arguments[i]).err THEN Inferred(TRUE, NoType)
    ELSE InferArgs(tc, arguments, i + 1)

\* TypeChecker._infer_expr
InferExpr(tc, expr) ==
    IF expr.k = "Literal" THEN Inferred(FALSE, InferLiteral(expr.value))
    ELSE IF expr.k = "Variable"
        THEN Inferred(FALSE, IF TCLookup(tc, expr.name) # NoType THEN TCLookup(tc, expr.name)
                             ELSE "any")
    ELSE IF expr.k = "Grouping" THEN InferExpr(tc, expr.expression)
    ELSE IF expr.k = "Unary" THEN InferUnary(expr.op, InferExpr(tc, expr.operand))
    ELSE IF expr.k = "Binary"
        THEN InferBinary(expr.op, InferExpr(tc, expr.left), InferExpr(tc, expr.right))
    ELSE IF expr.k = "Assign" THEN InferAssign(tc, expr.target, InferExpr(tc, expr.value))
    ELSE IF expr.k = "Call"
        THEN IF expr.callee.k = "Variable" /\ expr.callee.name \in DOMAIN tc.functions
             THEN IF Len(expr.arguments) # Len(tc.functions[expr.callee.name].params)
                  THEN Inferred(TRUE, NoType)
                  ELSE InferCallArgs(tc, tc.functions[expr.callee.name], expr.arguments, 1)
             ELSE InferArgs(tc, expr.arguments, 1)
    ELSE IF expr.k = "FunctionExpr" THEN Inferred(FALSE, FnType(Len(expr.params)))
    ELSE Inferred(FALSE, "any")

Checked(tc, err) == [tc |-> tc, err |-> err]

\* stmt.type_ann.name if stmt.type_ann else None
TypeAnnOf(stmt) ==
    IF "type_ann" \in DOMAIN stmt /\ stmt.type_ann # NoNode THEN stmt.type_ann.name ELSE NoType

\* {k: v.name for k, v in stmt.param_types.items()}
ParamTypesOf(stmt) ==
    IF "param_types" \in DOMAIN stmt
    THEN [p \in DOMAIN stmt.param_types |-> stmt.param_types[p].name]
    ELSE NoValues

\* stmt.return_type.name if stmt.return_type else None
ReturnTypeOf(stmt) ==
    IF "return_type" \in DOMAIN stmt /\ stmt.return_type # NoNode THEN stmt.return_type.name
    ELSE NoType

\* _check_stmt's LetStmt case, the initializer's type inferred ("null" without one)
CheckLet(tc, stmt, r) ==
    IF r.err THEN Checked(tc, TRUE)
    ELSE IF TypeAnnOf(stmt) # NoType /\ ~Compatible(r.t, TypeAnnOf(stmt)) THEN Checked(tc, TRUE)
    ELSE Checked(TCDefine(tc, stmt.name, IF TypeAnnOf(stmt) # NoType THEN TypeAnnOf(stmt)
                                         ELSE r.t), FALSE)

\* _check_stmt's ReturnStmt case inside a function with a return type
CheckReturn(tc, r) ==
    IF r.err THEN Checked(tc, TRUE)
    ELSE Checked(tc, ~Compatible(r.t, tc.current_return_type))

RECURSIVE DefineParams(_, _, _, _)
\* for p in stmt.params: self._define(p, sig.param_types.get(p, "any"))
DefineParams(tc, params, param_types, i) ==
    IF i > Len(params) THEN tc
    ELSE DefineParams(TCDefine(tc, params[i], ParamType(param_types, params[i])),
                      params, param_types, i + 1)

RECURSIVE CheckStmt(_, _), CheckStmts(_, _, _), CheckArms(_, _, _)
RECURSIVE CheckStmtsRest(_, _, _), CheckArmsRest(_, _, _)

\* a scope popped after the statements checked in it; an error leaves it as it is
PopChecked(c) == IF c.err THEN c ELSE Checked(TCPop(c.tc), FALSE)

\* the checker after a function's body: scope popped, return type restored
LeaveFunction(c, prev_ret) ==
    IF c.err THEN c
    ELSE Checked([TCPop(c.tc) EXCEPT !.current_return_type = prev_ret], FALSE)

\* a statement checked after the checks before it have passed
ThenCheck(c, stmt) == IF c.err THEN c ELSE CheckStmt(c.tc, stmt)

\* the rest of a body after statement i was checked
CheckStmtsRest(c, stmts, i) == IF c.err THEN c ELSE CheckStmts(c.tc, stmts, i + 1)

\* the rest of the arms after arm i was checked
CheckArmsRest(c, arms, i) == IF c.err THEN c ELSE CheckArms(c.tc, arms, i + 1)

\* the statements of a body, in order, up to the first error
CheckStmts(tc, stmts, i) ==
    IF i > Len(stmts) THEN Checked(tc, FALSE)
    ELSE CheckStmtsRest(CheckStmt(tc, stmts[i]), stmts, i)

\* the arms of a MatchStmt: guard inferred, body checked
CheckArms(tc, arms, i) ==
    IF i > Len(arms) THEN Checked(tc, FALSE)
    ELSE IF arms[i].guard # NoNode /\ InferExpr(tc, arms[i].guard).err THEN Checked(tc, TRUE)
    ELSE CheckArmsRest(CheckStmt(tc, arms[i].body), arms, i)

\* TypeChecker._check_stmt
CheckStmt(tc, stmt) ==
    IF stmt.k = "LetStmt"
        THEN CheckLet(tc, stmt, IF stmt.initializer # NoNode THEN InferExpr(tc, stmt.initializer)
                                ELSE Inferred(FALSE, "null"))
    ELSE IF stmt.k = "ExprStmt" THEN Checked(tc, InferExpr(tc, stmt.expr).err)
    ELSE IF stmt.k = "BlockStmt" THEN PopChecked(CheckStmts(TCPush(tc), stmt.body, 1))
    ELSE IF stmt.k = "IfStmt"
        THEN IF InferExpr(tc, stmt.condition).err THEN Checked(tc, TRUE)
             ELSE IF stmt.else_branch # NoNode
                  THEN ThenCheck(CheckStmt(tc, stmt.then_branch), stmt.else_branch)
                  ELSE CheckStmt(tc, stmt.then_branch)
    ELSE IF stmt.k = "WhileStmt"
        THEN IF InferExpr(tc, stmt.condition).err THEN Checked(tc, TRUE)
             ELSE CheckStmt(tc, stmt.body)
    ELSE IF stmt.k = "ForStmt"
        THEN IF \/ InferExpr(tc, stmt.start).err
                \/ InferExpr(tc, stmt.end).err
                \/ stmt.step # NoNode /\ InferExpr(tc, stmt.step).err
             THEN Checked(tc, TRUE)
             ELSE PopChecked(CheckStmt(TCDefine(TCPush(tc), stmt.name, "number"), stmt.body))
    ELSE IF stmt.k = "LoopStmt" THEN CheckStmt(tc, stmt.body)
    ELSE IF stmt.k = "FunctionStmt"
        THEN LeaveFunction(
                 CheckStmts(
                     DefineParams(
                         TCPush([TCDefine(tc, stmt.name, FnType(Len(stmt.params)))
                                    EXCEPT !.functions =
                                               [n \in (DOMAIN @) \cup {stmt.name} |->
                                                   IF n = stmt.name
                                                   THEN FunctionSig(stmt.params,
                                                                    ParamTypesOf(stmt),
                                                                    ReturnTypeOf(stmt))
                                                   ELSE @[n]],
                                           !.current_return_type = ReturnTypeOf(stmt)]),
                         stmt.params, ParamTypesOf(stmt), 1),
                     stmt.body.body, 1),
                 tc.current_return_type)
    ELSE IF stmt.k = "ReturnStmt"
        THEN IF tc.current_return_type = NoType THEN Checked(tc, FALSE)
             ELSE CheckReturn(tc, IF stmt.value # NoNode THEN InferExpr(tc, stmt.value)
                                  ELSE Inferred(FALSE, "null"))
    ELSE IF stmt.k = "MatchStmt"
        THEN IF InferExpr(tc, stmt.value).err THEN Checked(tc, TRUE)
             ELSE CheckArms(tc, stmt.arms, 1)
    ELSE Checked(tc, FALSE)

(***************************************************************************)
(* Promise (builtins.py).  A callback is a native callable: calling it is  *)
(* recorded in a log of <<callback, argument>> pairs, and an exception it  *)
(* raises is swallowed by the caller.  A method result is [p, calls]: the  *)
(* promise and the calls made, in order.                                   *)
(***************************************************************************)
\* Promise.__init__ before the executor runs
NewPromise ==
    [_resolved |-> FALSE, _rejected |-> FALSE, _value |-> None, _error |-> None,
     _then_callbacks |-> <<>>, _catch_callbacks |-> <<>>]

\* for cb in list(callbacks): try: cb(value) except Exception: pass
CallbacksReversed(callbacks, value) ==
    [i \in 1..Len(callbacks) |-> <<callbacks[Len(callbacks) + 1 - i], value>>]

Callbacks(callbacks, value) == [i \in 1..Len(callbacks) |-> <<callbacks[i], value>>]

\* the resolve closure of __init__
PromiseResolve(p, v) ==
    [p |-> [p EXCEPT !._resolved = TRUE, !._value = v],
     calls |-> Callbacks(p._then_callbacks, v)]

\* the reject closure of __init__
PromiseReject(p, e) ==
    [p |-> [p EXCEPT !._rejected = TRUE, !._error = e],
     calls |-> Callbacks(p._catch_callbacks, e)]

\* Promise.then
PromiseThen(p, fn) ==
    IF p._resolved THEN [p |-> p, calls |-> <<<<fn, p._value>>>>]
    ELSE [p |-> [p EXCEPT !._then_callbacks = Append(@, fn)], calls |-> <<>>]

\* Promise.catch
PromiseCatch(p, fn) ==
    IF p._rejected THEN [p |-> p, calls |-> <<<<fn, p._error>>>>]
    ELSE [p |-> [p EXCEPT !._catch_callbacks = Append(@, fn)], calls |-> <<>>]

\* the exception an executor raises
ExecutorError == StrV("exc")

\* Promise(executor), Promise.resolve(v), Promise.reject(e).  The executor keeps the
\* resolve and reject closures for later ("keep"), calls one of them at once, or raises;
\* without an executor nothing can settle the promise.
PromiseNew(how, v) ==
    IF how = "resolve" THEN PromiseResolve(NewPromise, v).p
    ELSE IF how = "reject" THEN PromiseReject(NewPromise, v).p
    ELSE IF how = "raise" THEN [NewPromise EXCEPT !._rejected = TRUE, !._error = ExecutorError]
    ELSE IF how = "static_resolve" THEN [NewPromise EXCEPT !._resolved = TRUE, !._value = v]
    ELSE IF how = "static_reject" THEN [NewPromise EXCEPT !._rejected = TRUE, !._error = v]
    ELSE NewPromise

(***************************************************************************)
(* Lexer (lexer.py).  The source is a sequence of characters; character i  *)
(* of the Python string is source[i + 1].  A lexer is the Lexer object     *)
(* with err, the exception that ended lex(): "" for none, "LexerError",    *)
(* or "IndexError" for an index past the end of the source.  A token is    *)
(* tokens.Token with one more field, start, the index of the first         *)
(* character of its lexeme (Lexer.start when the token was added).         *)
(***************************************************************************)
\* what _peek and _peek_next return at the end of the source
NUL == "\\0"

Digits == {"0", "1", "2", "3", "4", "5", "6", "7", "8", "9"}

\* text_helpers.is_alpha
Alphas ==
    {"a", "b", "c", "d", "e", "f", "g", "h", "i", "j", "k", "l", "m", "n", "o", "p", "q",
     "r", "s", "t", "u", "v", "w", "x", "y", "z", "A", "B", "C", "D", "E", "F", "G", "H",
     "I", "J", "K", "L", "M", "N", "O", "P", "Q", "R", "S", "T", "U", "V", "W", "X", "Y",
     "Z", "_", "$"}

\* lexer.KEYWORDS
KEYWORDS ==
    [var |-> "VAR", const |-> "CONST", if |-> "IF", else |-> "ELSE", while |-> "WHILE",
     for |-> "FOR", loop |-> "LOOP", to |-> "TO", step |-> "STEP", true |-> "TRUE",
     false |-> "FALSE", null |-> "NULL", print |-> "PRINT", function |-> "FUNCTION",
     return |-> "RETURN"]

\* single_map of _scan_token, without the entries that the two-character cases handle
SingleMap ==
    [c \in {"{", "}", "(", ")", ";", ",", ".", "+", "-", "*", "%"} |->
        CASE c = "{" -> "LBRACE" [] c = "}" -> "RBRACE" [] c = "(" -> "LPAREN"
          [] c = ")" -> "RPAREN" [] c = ";" -> "SEMI" [] c = "," -> "COMMA"
          [] c = "." -> "DOT" [] c = "+" -> "PLUS" [] c = "-" -> "MINUS"
          [] c = "*" -> "STAR" [] c = "%" -> "PERC"]

\* Token, with the start index of its lexeme
Token(type, lexeme, literal, lineno, col, start) ==
    [type |-> type, lexeme |-> lexeme, literal |-> literal, lineno |-> lineno, col |-> col,
     start |-> start]

\* Lexer.__init__
Lexer(source) ==
    [source |-> source, start |-> 0, current |-> 0, lineno |-> 1, col |-> 1, tokens |-> <<>>,
     err |-> ""]

LexRaise(lx, e) == IF lx.err = "" THEN [lx EXCEPT !.err = e] ELSE lx

\* Lexer._is_at_end
IsAtEnd(lx) == lx.current >= Len(lx.source)

\* Lexer._peek
Peek(lx) == IF IsAtEnd(lx) THEN NUL ELSE lx.source[lx.current + 1]

\* Lexer._peek_next
PeekNext(lx) == IF lx.current + 1 >= Len(lx.source) THEN NUL ELSE lx.source[lx.current + 2]

\* Lexer._advance: the lexer after it; the character returned is Peek of the lexer
\* before it.  At the end of the source, source[current] raises IndexError.
Advance(lx) ==
    IF lx.err # "" THEN lx
    ELSE IF IsAtEnd(lx) THEN LexRaise(lx, "IndexError")
    ELSE IF lx.source[lx.current + 1] = "\n"
        THEN [lx EXCEPT !.current = @ + 1, !.lineno = @ + 1, !.col = 1]
    ELSE [lx EXCEPT !.current = @ + 1, !.col = @ + 1]

\* Lexer._match: whether it consumes expected
Matches(lx, expected) == ~IsAtEnd(lx) /\ lx.source[lx.current + 1] = expected

\* the column _add_token gives a token
StartCol(lx) ==
    IF lx.col - (lx.current - lx.start) > 1 THEN lx.col - (lx.current - lx.start) ELSE 1

\* Lexer._add_token
AddToken(lx, type, literal) ==
    IF lx.err # "" THEN lx
    ELSE [lx EXCEPT !.tokens =
             Append(@, Token(type, SubSeq(lx.source, lx.start + 1, lx.current), literal,
                             lx.lineno, StartCol(lx), lx.start))]

RECURSIVE Text(_)
\* "".join(chars)
Text(chars) == IF chars = <<>> THEN "" ELSE chars[1] \o Text(Tail(chars))

RECURSIVE SkipLine(_), SkipBlock(_), StringChars(_, _, _), NumberDigits(_), IdentChars(_)

\* while self._peek() != "\n" and not self._is_at_end(): self._advance()
SkipLine(lx) == IF Peek(lx) # "\n" /\ ~IsAtEnd(lx) THEN SkipLine(Advance(lx)) ELSE lx

\* the block comment loop and the two _advance calls that consume the closing */
SkipBlock(lx) ==
    IF ~(Peek(lx) = "*" /\ PeekNext(lx) = "/")
    THEN IF IsAtEnd(lx) THEN LexRaise(lx, "LexerError") ELSE SkipBlock(Advance(lx))
    ELSE Advance(Advance(lx))

\* the character an escape sequence stands for
Unescape(nxt) ==
    IF nxt = "n" THEN "\n" ELSE IF nxt = "t" THEN "\t" ELSE IF nxt = "r" THEN "\r" ELSE nxt

\* Lexer._string: [lx, chars] after the loop
StringChars(lx, quote, chars) ==
    IF lx.err # "" THEN [lx |-> lx, chars |-> chars]
    ELSE IF Peek(lx) # quote /\ ~IsAtEnd(lx)
        THEN IF Peek(lx) = "\\"
             THEN IF IsAtEnd(Advance(lx))
                  THEN [lx |-> LexRaise(Advance(lx), "IndexError"), chars |-> chars]
                  ELSE StringChars(Advance(Advance(lx)), quote,
                                   Append(chars, Unescape(Peek(Advance(lx)))))
             ELSE StringChars(Advance(lx), quote, Append(chars, Peek(lx)))
    ELSE [lx |-> lx, chars |-> chars]

\* Lexer._string after the loop: unterminated, or the closing quote and the token
StringEnd(r) ==
    IF r.lx.err # "" THEN r.lx
    ELSE IF IsAtEnd(r.lx) THEN LexRaise(r.lx, "LexerError")
    ELSE AddToken(Advance(r.lx), "STRING", r.chars)

\* while self._peek().isdigit(): self._advance()
NumberDigits(lx) == IF Peek(lx) \in Digits THEN NumberDigits(Advance(lx)) ELSE lx

\* Lexer._number after the integer part: the fraction, then the token
NumberEnd(lx) ==
    IF Peek(lx) = "." /\ PeekNext(lx) \in Digits THEN NumberDigits(Advance(lx)) ELSE lx

\* the literal of a NUMBER token is its text
NumberToken(lx) == AddToken(lx, "NUMBER", SubSeq(lx.source, lx.start + 1, lx.current))

\* while is_alnum(self._peek()): self._advance()
IdentChars(lx) ==
    IF Peek(lx) \in Alphas \cup Digits THEN IdentChars(Advance(lx)) ELSE lx

\* Lexer._identifier after the loop
IdentToken(lx) ==
    AddToken(lx,
             IF Text(SubSeq(lx.source, lx.start + 1, lx.current)) \in DOMAIN KEYWORDS
             THEN KEYWORDS[Text(SubSeq(lx.source, lx.start + 1, lx.current))]
             ELSE "IDENT",
             <<>>)

\* the two-character operators of _scan_token: second, then the types with and without it
TwoChar(lx, second, both, single) ==
    IF Matches(lx, second) THEN AddToken(Advance(lx), both, <<>>)
    ELSE IF single = "" THEN LexRaise(lx, "LexerError")
    ELSE AddToken(lx, single, <<>>)

\* Lexer._scan_token after c = self._advance() returned c and gave lx
ScanAfter(lx, c) ==
    IF c \in {" ", "\r", "\n", "\t"} THEN lx
    ELSE IF c = "/"
        THEN IF Matches(lx, "/") THEN SkipLine(Advance(lx))
             ELSE IF Matches(lx, "*") THEN SkipBlock(Advance(lx))
             ELSE AddToken(lx, "SLASH", <<>>)
    ELSE IF c = ":"
        THEN IF Matches(lx, "=") THEN AddToken(Advance(lx), "DECL", <<>>)
             ELSE IF Matches(lx, ":") THEN AddToken(Advance(lx), "METHODCOLON", <<>>)
             ELSE LexRaise(lx, "LexerError")
    ELSE IF c = "=" THEN TwoChar(lx, "=", "EQEQ", "EQ")
    ELSE IF c = "!" THEN TwoChar(lx, "=", "BANGEQ", "BANG")
    ELSE IF c = "<" THEN TwoChar(lx, "=", "LTE", "LT")
    ELSE IF c = ">" THEN TwoChar(lx, "=", "GTE", "GT")
    ELSE IF c = "&" THEN TwoChar(lx, "&", "ANDAND", "")
    ELSE IF c = "|" THEN TwoChar(lx, "|", "OROR", "")
    ELSE IF c \in DOMAIN SingleMap THEN AddToken(lx, SingleMap[c], <<>>)
    ELSE IF c \in {"\"", "'"} THEN StringEnd(StringChars(lx, c, <<>>))
    ELSE IF c \in Digits THEN NumberToken(NumberEnd(NumberDigits(lx)))
    ELSE IF c \in Alphas THEN IdentToken(IdentChars(lx))
    ELSE LexRaise(lx, "LexerError")

\* one turn of the loop of Lexer.lex: self.start = self.current; self._scan_token()
ScanToken(lx) == ScanAfter(Advance([lx EXCEPT !.start = lx.current]), Peek(lx))

\* Lexer.lex after its loop: the EOF token
LexEof(lx) ==
    [lx EXCEPT !.tokens = Append(@, Token("EOF", <<>>, <<>>, lx.lineno, lx.col, lx.current))]

(***************************************************************************)
(* Programs.  Each is the AST parser.py builds for the source text shown.  *)
(***************************************************************************)
IntLit(n) == Literal(IntV(n))

Show(e) == ExprStmt(Call(Variable("show"), <<e>>))

Var(n, e) == LetStmt(n, e, FALSE, TRUE)

Const(n, e) == LetStmt(n, e, TRUE, FALSE)

Set(n, e) == ExprStmt(Assign(Variable(n), e))

Inc(n) == Set(n, Binary(Variable(n), "+", IntLit(1)))

CallOf(n, args) == Call(Variable(n), args)

\* literal operands of the short-circuit programs
Lits ==
    <<IntV(0), IntV(1), IntV(2), None, BoolV(FALSE), BoolV(TRUE), StrV(""), StrV("a")>>

LogicOps == <<"&&", "||">>

\* var x := 0; var r := A op (x = 7); show(r); show(x);
ProgLogicStmt(op, a) ==
    <<Var("x", IntLit(0)),
      Var("r", Binary(Literal(a), op, Grouping(Assign(Variable("x"), IntLit(7))))),
      Show(Variable("r")), Show(Variable("x"))>>

\* function f(a) { return a op 9; } var r := f(A); show(r);
ProgLogicReturn(op, a) ==
    <<FunctionStmt("f", <<"a">>,
                   BlockStmt(<<ReturnStmt(Binary(Variable("a"), op, IntLit(9)))>>)),
      Var("r", CallOf("f", <<Literal(a)>>)),
      Show(Variable("r"))>>

\* show(5 + (A op 2)); show(3);
ProgLogicNested(op, a) ==
    <<Show(Binary(IntLit(5), "+", Grouping(Binary(Literal(a), op, IntLit(2))))),
      Show(IntLit(3))>>

\* a number as the parser builds it: Parser._unary makes a negative one a unary minus
NumLit(n) == IF n < 0 THEN Unary("-", IntLit(0 - n)) ELSE IntLit(n)

\* start and end of the counting for-loop programs
ForBounds == <<<<1, 3>>, <<3, 1>>, <<0, 0>>, <<2, 3>>, <<-1, 1>>, <<1, -1>>>>

\* their step; the choice after the last one is a header without a step clause
ForSteps == <<1, 2, -1, -2, 0>>

\* for var i := S to E step K { show(i); } show("end");
ProgFor(se, q) ==
    <<ForStmt("i", NumLit(se[1]), NumLit(se[2]),
              IF q > Len(ForSteps) THEN NoNode ELSE NumLit(ForSteps[q]),
              BlockStmt(<<Show(Variable("i"))>>)),
      Show(Literal(StrV("end")))>>

\* subjects of the match programs
MatchSubjects ==
    <<IntLit(0), IntLit(1), IntLit(2), IntLit(3), Literal(StrV("a")), Literal(None),
      ListLiteral(<<IntLit(7), IntLit(8)>>), ListLiteral(<<IntLit(7)>>),
      ListLiteral(<<IntLit(6), IntLit(8)>>)>>

\* match S { case 0: "zero"  case n if n == 2: "two"  case 2: "dup"  case 1: "one"
\*           case [a, b] if a == 7: b  case _ if 0: "never"  [case _: "other"] }
\* q = 1, 3: a match statement whose arms show their value, then show("end");
\* q = 2, 4: var r := match ...; show(r); show("end");   q = 3, 4 have the last arm
ProgMatch(subject, q) ==
    LET body(e) == BlockStmt(<<IF q % 2 = 0 THEN ExprStmt(e) ELSE Show(e)>>)
        eq(n, v) == Binary(Variable(n), "==", IntLit(v))
        arms == <<CaseArm(LiteralPattern(IntV(0)), NoNode, body(Literal(StrV("zero")))),
                  CaseArm(VariablePattern("n"), eq("n", 2), body(Literal(StrV("two")))),
                  CaseArm(LiteralPattern(IntV(2)), NoNode, body(Literal(StrV("dup")))),
                  CaseArm(LiteralPattern(IntV(1)), NoNode, body(Literal(StrV("one")))),
                  CaseArm(ListPattern(<<VariablePattern("a"), VariablePattern("b")>>),
                          eq("a", 7), body(Variable("b"))),
                  CaseArm(WildcardPattern, IntLit(0), body(Literal(StrV("never"))))>>
                 \o (IF q > 2
                     THEN <<CaseArm(WildcardPattern, NoNode, body(Literal(StrV("other"))))>>
                     ELSE <<>>)
    IN IF q % 2 = 0
       THEN <<Var("r", MatchExpr(subject, arms)), Show(Variable("r")),
              Show(Literal(StrV("end")))>>
       ELSE <<MatchStmt(subject, arms), Show(Literal(StrV("end")))>>

\* function f(a, b) { var c := 5; return a; } show(f(7, 8, 9));  with the first n of
\* the three arguments
ProgCall(n) ==
    <<FunctionStmt("f", <<"a", "b">>,
                   BlockStmt(<<Var("c", IntLit(5)), ReturnStmt(Variable("a"))>>)),
      Show(CallOf("f", SubSeq(<<IntLit(7), IntLit(8), IntLit(9)>>, 1, n)))>>

\* var f := function(a, b) { return b; }; show(f(7, 8, 9));  with the first n of the
\* three arguments
ProgAstCall(n) ==
    <<Var("f", FunctionExpr("", <<"a", "b">>, BlockStmt(<<ReturnStmt(Variable("b"))>>))),
      Show(CallOf("f", SubSeq(<<IntLit(7), IntLit(8), IntLit(9)>>, 1, n)))>>

\* limits of the counting-loop programs
CountLimits == <<0, 2, 3>>

\* shapes of the counting-loop programs: the comparison of the exit test, the form
\* of the increment, where the counter lives and whether the body goes on
CountShapes ==
    <<[op |-> ">=", form |-> 1, counter |-> "local", more |-> FALSE],
      [op |-> ">", form |-> 1, counter |-> "local", more |-> FALSE],
      [op |-> ">=", form |-> 1, counter |-> "local", more |-> TRUE],
      [op |-> ">=", form |-> 2, counter |-> "local", more |-> FALSE],
      [op |-> ">=", form |-> 1, counter |-> "param", more |-> FALSE],
      [op |-> ">=", form |-> 1, counter |-> "global", more |-> FALSE]>>

\* x = x + 1 (form 1) or x = 1 + x (form 2)
IncForm(n, form) ==
    IF form = 1 THEN Inc(n) ELSE Set(n, Binary(IntLit(1), "+", Variable(n)))

\* [var i := 0;] function g([i]) { [var i := 0;]
\*     loop { if (i OP L) break; i = i + 1; [show(i);] } return i; }
\* show(g([0])); [show(i);]
ProgCount(sh, limit) ==
    LET loop == LoopStmt(BlockStmt(
                    <<IfStmt(Binary(Variable("i"), sh.op, IntLit(limit)), BreakStmt, NoNode),
                      IncForm("i", sh.form)>>
                    \o (IF sh.more THEN <<Show(Variable("i"))>> ELSE <<>>)))
        g == FunctionStmt("g", IF sh.counter = "param" THEN <<"i">> ELSE <<>>,
                 BlockStmt((IF sh.counter = "local" THEN <<Var("i", IntLit(0))>> ELSE <<>>)
                           \o <<loop, ReturnStmt(Variable("i"))>>))
    IN (IF sh.counter = "global" THEN <<Var("i", IntLit(0))>> ELSE <<>>)
       \o <<g, Show(CallOf("g", IF sh.counter = "param" THEN <<IntLit(0)>> ELSE <<>>))>>
       \o (IF sh.counter = "global" THEN <<Show(Variable("i"))>> ELSE <<>>)

\* where the incremented variable of the increment programs lives
IncTargets == <<"param", "local", "global", "undefined", "module">>

\* param:     function f(x) { x = x + 1; return x; } show(f(5));
\* local:     function f() { var x := 5; x = x + 1; return x; } show(f());
\* global:    var x := 5; function f() { x = x + 1; return x; } show(f()); show(x);
\* undefined: function f() { x = x + 1; return x; } show(f());
\* module:    var x := 5; x = x + 1; show(x);
ProgInc(target, form) ==
    LET f(ps, decl) == FunctionStmt("f", ps, BlockStmt(
                           decl \o <<IncForm("x", form), ReturnStmt(Variable("x"))>>))
    IN IF target = "param" THEN <<f(<<"x">>, <<>>), Show(CallOf("f", <<IntLit(5)>>))>>
       ELSE IF target = "local"
       THEN <<f(<<>>, <<Var("x", IntLit(5))>>), Show(CallOf("f", <<>>))>>
       ELSE IF target = "global"
       THEN <<Var("x", IntLit(5)), f(<<>>, <<>>), Show(CallOf("f", <<>>)),
              Show(Variable("x"))>>
       ELSE IF target = "undefined" THEN <<f(<<>>, <<>>), Show(CallOf("f", <<>>))>>
       ELSE <<Var("x", IntLit(5)), IncForm("x", form), Show(Variable("x"))>>

\* the programs without parameters, by name
PlainProgram ==
    [\* function make() { var n := 0; function bump() { n = n + 1; return n; } return bump; }
     \* var f := make(); show(f()); show(f()); show(f());
     closure |->
        <<FunctionStmt("make", <<>>, BlockStmt(<<
              Var("n", IntLit(0)),
              FunctionStmt("bump", <<>>, BlockStmt(<<Inc("n"), ReturnStmt(Variable("n"))>>)),
              ReturnStmt(Variable("bump"))>>)),
          Var("f", CallOf("make", <<>>)),
          Show(CallOf("f", <<>>)), Show(CallOf("f", <<>>)), Show(CallOf("f", <<>>))>>,

     \* var x := 2; x = x + 5; show(x);
     arith |->
        <<Var("x", IntLit(2)), Set("x", Binary(Variable("x"), "+", IntLit(5))), Show(Variable("x"))>>,

     \* var x := 10; if (x > 5) { show("big"); } else { show("small"); }
     ifelse |->
        <<Var("x", IntLit(10)),
          IfStmt(Binary(Variable("x"), ">", IntLit(5)),
                 BlockStmt(<<Show(Literal(StrV("big")))>>),
                 BlockStmt(<<Show(Literal(StrV("small")))>>))>>,

     \* var i := 0; var s := 0; while (i < 4) { s = s + i; i = i + 1; } show(s);
     while |->
        <<Var("i", IntLit(0)), Var("s", IntLit(0)),
          WhileStmt(Binary(Variable("i"), "<", IntLit(4)),
                    BlockStmt(<<Set("s", Binary(Variable("s"), "+", Variable("i"))), Inc("i")>>)),
          Show(Variable("s"))>>,

     \* function add(a, b) { return a + b; } show(add(7, 8));
     add |->
        <<FunctionStmt("add", <<"a", "b">>,
                       BlockStmt(<<ReturnStmt(Binary(Variable("a"), "+", Variable("b")))>>)),
          Show(CallOf("add", <<IntLit(7), IntLit(8)>>))>>,

     \* const k := 1; k = 2; show(k);
     const_assign |->
        <<Const("k", IntLit(1)), Set("k", IntLit(2)), Show(Variable("k"))>>,

     \* function f() { const k := 1; k = 2; return k; } var r := f(); show(r);
     const_local |->
        <<FunctionStmt("f", <<>>, BlockStmt(<<Const("k", IntLit(1)), Set("k", IntLit(2)),
                                               ReturnStmt(Variable("k"))>>)),
          Var("r", CallOf("f", <<>>)), Show(Variable("r"))>>,

     \* const k := 1; var k := 2; show(k);
     const_redefine |->
        <<Const("k", IntLit(1)), Var("k", IntLit(2)), Show(Variable("k"))>>,

     \* break;
     break_top |->
        <<BreakStmt>>,

     \* function f() { break; } f();
     break_in_function |->
        <<FunctionStmt("f", <<>>, BlockStmt(<<BreakStmt>>)), ExprStmt(CallOf("f", <<>>))>>,

     \* var i := 0; while (i < 3) { function f() { break; } i = i + 1; }
     break_in_nested_function |->
        <<Var("i", IntLit(0)),
          WhileStmt(Binary(Variable("i"), "<", IntLit(3)),
                    BlockStmt(<<FunctionStmt("f", <<>>, BlockStmt(<<BreakStmt>>)), Inc("i")>>))>>,

     \* var f := function() { break; }; show(1);
     break_in_function_expr |->
        <<Var("f", FunctionExpr("", <<>>, BlockStmt(<<BreakStmt>>))), Show(IntLit(1))>>,

     \* var i := 0; while (i < 3) { i = i + 1; if (i == 2) { break; } } show(i);
     while_break |->
        <<Var("i", IntLit(0)),
          WhileStmt(Binary(Variable("i"), "<", IntLit(3)),
                    BlockStmt(<<Inc("i"),
                                IfStmt(Binary(Variable("i"), "==", IntLit(2)),
                                       BlockStmt(<<BreakStmt>>), NoNode)>>)),
          Show(Variable("i"))>>,

     \* for var i := 1 to 5 { if (i == 3) { break; } show(i); } show(9);
     for_break |->
        <<ForStmt("i", IntLit(1), IntLit(5), NoNode,
                  BlockStmt(<<IfStmt(Binary(Variable("i"), "==", IntLit(3)),
                                     BlockStmt(<<BreakStmt>>), NoNode),
                              Show(Variable("i"))>>)),
          Show(IntLit(9))>>,

     \* var n := 0; loop { n = n + 1; if (n == 3) { break; } show(n); } show(n);
     loop_break |->
        <<Var("n", IntLit(0)),
          LoopStmt(BlockStmt(<<Inc("n"),
                               IfStmt(Binary(Variable("n"), "==", IntLit(3)),
                                      BlockStmt(<<BreakStmt>>), NoNode),
                               Show(Variable("n"))>>)),
          Show(Variable("n"))>>,

     \* for var i := 1 to 2 { loop { break; } show(i); } show(9);
     nested_break |->
        <<ForStmt("i", IntLit(1), IntLit(2), NoNode,
                  BlockStmt(<<LoopStmt(BlockStmt(<<BreakStmt>>)), Show(Variable("i"))>>)),
          Show(IntLit(9))>>,

     \* var n := 0; loop { n = n + 1; while (true) { break; } show(n); if (n >= 2) { break; } }
     \* show(9);
     while_in_loop_break |->
        <<Var("n", IntLit(0)),
          LoopStmt(BlockStmt(<<Inc("n"),
                               WhileStmt(Literal(BoolV(TRUE)), BlockStmt(<<BreakStmt>>)),
                               Show(Variable("n")),
                               IfStmt(Binary(Variable("n"), ">=", IntLit(2)),
                                      BlockStmt(<<BreakStmt>>), NoNode)>>)),
          Show(IntLit(9))>>,

     \* function g() { var i := 0; loop { if (i >= 2) break; i = i + 1; show(i); break; }
     \*                return i; }
     \* show(g());
     counting_loop_break |->
        <<FunctionStmt("g", <<>>, BlockStmt(<<
              Var("i", IntLit(0)),
              LoopStmt(BlockStmt(<<IfStmt(Binary(Variable("i"), ">=", IntLit(2)), BreakStmt, NoNode),
                                   Inc("i"), Show(Variable("i")), BreakStmt>>)),
              ReturnStmt(Variable("i"))>>)),
          Show(CallOf("g", <<>>))>>,

     \* function h() { var n := 0; while (n < 2) { n = n + 1; var i := 0;
     \*     loop { if (i >= 2) break; i = i + 1; break; } show(n); } return n; }
     \* show(h());
     counting_loop_in_while |->
        <<FunctionStmt("h", <<>>, BlockStmt(<<
              Var("n", IntLit(0)),
              WhileStmt(Binary(Variable("n"), "<", IntLit(2)), BlockStmt(<<
                  Inc("n"), Var("i", IntLit(0)),
                  LoopStmt(BlockStmt(<<IfStmt(Binary(Variable("i"), ">=", IntLit(2)), BreakStmt, NoNode),
                                       Inc("i"), BreakStmt>>)),
                  Show(Variable("n"))>>)),
              ReturnStmt(Variable("n"))>>)),
          Show(CallOf("h", <<>>))>>,

     \* var r := q; show("after");
     undefined_read |->
        <<Var("r", Variable("q")), Show(Literal(StrV("after")))>>,

     \* function f() { return q; } var r := f(); show("after");
     undefined_in_function |->
        <<FunctionStmt("f", <<>>, BlockStmt(<<ReturnStmt(Variable("q"))>>)),
          Var("r", CallOf("f", <<>>)), Show(Literal(StrV("after")))>>,

     \* show(x); var x := 1; show(x);
     hoist_module |->
        <<Show(Variable("x")), Var("x", IntLit(1)), Show(Variable("x"))>>,

     \* show(x); { var x := 1; } show(x);
     hoist_block |->
        <<Show(Variable("x")), BlockStmt(<<Var("x", IntLit(1))>>), Show(Variable("x"))>>,

     \* show(x); if (true) { var x := 1; } show(x);
     hoist_if |->
        <<Show(Variable("x")),
          IfStmt(Literal(BoolV(TRUE)), BlockStmt(<<Var("x", IntLit(1))>>), NoNode),
          Show(Variable("x"))>>,

     \* function f() { show(x); var x := 1; show(x); return 0; } f();
     hoist_function |->
        <<FunctionStmt("f", <<>>, BlockStmt(<<Show(Variable("x")), Var("x", IntLit(1)),
                                               Show(Variable("x")), ReturnStmt(IntLit(0))>>)),
          ExprStmt(CallOf("f", <<>>))>>,

     \* var x := 5; var f := function() { x = x + 1; return x; }; show(f()); show(x);
     free_global |->
        <<Var("x", IntLit(5)),
          Var("f", FunctionExpr("", <<>>, BlockStmt(<<Inc("x"), ReturnStmt(Variable("x"))>>))),
          Show(CallOf("f", <<>>)), Show(Variable("x"))>>,

     \* function g() { var y := 2; var f := function() { return y; }; return f(); } show(g());
     free_local |->
        <<FunctionStmt("g", <<>>, BlockStmt(<<
              Var("y", IntLit(2)),
              Var("f", FunctionExpr("", <<>>, BlockStmt(<<ReturnStmt(Variable("y"))>>))),
              ReturnStmt(CallOf("f", <<>>))>>)),
          Show(CallOf("g", <<>>))>>,

     \* var len := 5; show(typeOf(len));
     builtin_rebind |->
        <<Var("len", IntLit(5)), Show(CallOf("typeOf", <<Variable("len")>>))>>,

     \* function set() { g = 7; return 0; } function get() { return g; }
     \* g = 1; set(); show(get());
     globals_shared |->
        <<FunctionStmt("set", <<>>, BlockStmt(<<Set("g", IntLit(7)), ReturnStmt(IntLit(0))>>)),
          FunctionStmt("get", <<>>, BlockStmt(<<ReturnStmt(Variable("g"))>>)),
          Set("g", IntLit(1)), ExprStmt(CallOf("set", <<>>)), Show(CallOf("get", <<>>))>>,

     \* function even(k) { if (k == 0) { return 1; } return odd(k - 1); }
     \* function odd(k) { if (k == 0) { return 0; } return even(k - 1); }
     \* show(even(2));
     mutual |->
        <<FunctionStmt("even", <<"k">>, BlockStmt(<<
              IfStmt(Binary(Variable("k"), "==", IntLit(0)),
                     BlockStmt(<<ReturnStmt(IntLit(1))>>), NoNode),
              ReturnStmt(CallOf("odd", <<Binary(Variable("k"), "-", IntLit(1))>>))>>)),
          FunctionStmt("odd", <<"k">>, BlockStmt(<<
              IfStmt(Binary(Variable("k"), "==", IntLit(0)),
                     BlockStmt(<<ReturnStmt(IntLit(0))>>), NoNode),
              ReturnStmt(CallOf("even", <<Binary(Variable("k"), "-", IntLit(1))>>))>>)),
          Show(CallOf("even", <<IntLit(2)>>))>>,

     \* try { throw 7; show("not"); } catch (e) { show(e); } show("after");
     try_catch |->
        <<TryCatchStmt(BlockStmt(<<ThrowStmt(IntLit(7)), Show(Literal(StrV("not")))>>), "e",
                       BlockStmt(<<Show(Variable("e"))>>)),
          Show(Literal(StrV("after")))>>,

     \* function f() { throw 7; } try { f(); show("not"); } catch (e) { show(e); } show("after");
     try_catch_call |->
        <<FunctionStmt("f", <<>>, BlockStmt(<<ThrowStmt(IntLit(7))>>)),
          TryCatchStmt(BlockStmt(<<ExprStmt(CallOf("f", <<>>)), Show(Literal(StrV("not")))>>), "e",
                       BlockStmt(<<Show(Variable("e"))>>)),
          Show(Literal(StrV("after")))>>,

     \* match [1, 2] { case [a, b]: { show(a); show(b); } }
     match_list |->
        <<MatchStmt(ListLiteral(<<IntLit(1), IntLit(2)>>),
                    <<CaseArm(ListPattern(<<VariablePattern("a"), VariablePattern("b")>>), NoNode,
                              BlockStmt(<<Show(Variable("a")), Show(Variable("b"))>>))>>)>>,

     \* match [1, [2, 3]] { case [a, [b, c]]: { show(a); show(b); show(c); } }
     match_nested |->
        <<MatchStmt(ListLiteral(<<IntLit(1), ListLiteral(<<IntLit(2), IntLit(3)>>)>>),
                    <<CaseArm(ListPattern(<<VariablePattern("a"),
                                            ListPattern(<<VariablePattern("b"),
                                                          VariablePattern("c")>>)>>),
                              NoNode,
                              BlockStmt(<<Show(Variable("a")), Show(Variable("b")),
                                          Show(Variable("c"))>>))>>)>>,

     \* match [1, [2, 3]] { case [a, [b, c]] if b == 2: { show(c); } }
     match_nested_guard |->
        <<MatchStmt(ListLiteral(<<IntLit(1), ListLiteral(<<IntLit(2), IntLit(3)>>)>>),
                    <<CaseArm(ListPattern(<<VariablePattern("a"),
                                            ListPattern(<<VariablePattern("b"),
                                                          VariablePattern("c")>>)>>),
                              Binary(Variable("b"), "==", IntLit(2)),
                              BlockStmt(<<Show(Variable("c"))>>))>>)>>,

     \* var x: int := 10; x = "a"; show(x);
     typed_assign |->
        <<LetStmtTyped("x", IntLit(10), FALSE, TRUE, TypeAnnotation("int")),
          Set("x", Literal(StrV("a"))), Show(Variable("x"))>>,

     \* show("a"); var n := 5; n(); show("b");
     show_then_error |->
        <<Show(Literal(StrV("a"))), Var("n", IntLit(5)), ExprStmt(CallOf("n", <<>>)),
          Show(Literal(StrV("b")))>>,

     \* var x := 5; show(x); var f := function() { x = x + 1; return x; }; show(f());
     show_then_call |->
        <<Var("x", IntLit(5)), Show(Variable("x")),
          Var("f", FunctionExpr("", <<>>, BlockStmt(<<Inc("x"), ReturnStmt(Variable("x"))>>))),
          Show(CallOf("f", <<>>))>>,

     \* var n := 10; match 3 { case n if n == 2: { show("two"); } case _: { show(n); } }
     \* show(n);
     match_rebind |->
        <<Var("n", IntLit(10)),
          MatchStmt(IntLit(3),
                    <<CaseArm(VariablePattern("n"), Binary(Variable("n"), "==", IntLit(2)),
                              BlockStmt(<<Show(Literal(StrV("two")))>>)),
                      CaseArm(WildcardPattern, NoNode, BlockStmt(<<Show(Variable("n"))>>))>>),
          Show(Variable("n"))>>,

     \* function f() { break; }
     \* var i := 0; loop { i = i + 1; f(); show(i); if (i >= 2) break; } show("end");
     break_from_callee |->
        <<FunctionStmt("f", <<>>, BlockStmt(<<BreakStmt>>)),
          Var("i", IntLit(0)),
          LoopStmt(BlockStmt(<<Inc("i"), ExprStmt(CallOf("f", <<>>)), Show(Variable("i")),
                               IfStmt(Binary(Variable("i"), ">=", IntLit(2)), BreakStmt, NoNode)>>)),
          Show(Literal(StrV("end")))>>,

     \* function f() { break; }  for var i := 1 to 2 { f(); show(i); } show("end");
     break_from_callee_for |->
        <<FunctionStmt("f", <<>>, BlockStmt(<<BreakStmt>>)),
          ForStmt("i", IntLit(1), IntLit(2), NoNode,
                  BlockStmt(<<ExprStmt(CallOf("f", <<>>)), Show(Variable("i"))>>)),
          Show(Literal(StrV("end")))>>,

     \* function outer() { function inner() { return 2; } return inner(); } show(outer());
     nested_decl |->
        <<FunctionStmt("outer", <<>>, BlockStmt(<<
              FunctionStmt("inner", <<>>, BlockStmt(<<ReturnStmt(IntLit(2))>>)),
              ReturnStmt(CallOf("inner", <<>>))>>)),
          Show(CallOf("outer", <<>>))>>,

     \* var inner := 1;
     \* function outer() { function inner() { return 2; } return inner(); }
     \* show(outer());
     nested_decl_shadow |->
        <<Var("inner", IntLit(1)),
          FunctionStmt("outer", <<>>, BlockStmt(<<
              FunctionStmt("inner", <<>>, BlockStmt(<<ReturnStmt(IntLit(2))>>)),
              ReturnStmt(CallOf("inner", <<>>))>>)),
          Show(CallOf("outer", <<>>))>>,

     \* var f := function() { var y := 1; return y; }; show(f());
     ast_var |->
        <<Var("f", FunctionExpr("", <<>>, BlockStmt(<<Var("y", IntLit(1)),
                                                       ReturnStmt(Variable("y"))>>))),
          Show(CallOf("f", <<>>))>>,

     \* var f := function(a) { if (a) { var y := 7; } return y; }; show(f(1)); show(f(0));
     ast_var_shared |->
        <<Var("f", FunctionExpr("", <<"a">>, BlockStmt(<<
              IfStmt(Variable("a"), BlockStmt(<<Var("y", IntLit(7))>>), NoNode),
              ReturnStmt(Variable("y"))>>))),
          Show(CallOf("f", <<IntLit(1)>>)), Show(CallOf("f", <<IntLit(0)>>))>>,

     \* function f() { for var i := 5 to 9 { return i; } return 0; }  show(f()); show("end");
     for_return |->
        <<FunctionStmt("f", <<>>, BlockStmt(<<
              ForStmt("i", IntLit(5), IntLit(9), NoNode, BlockStmt(<<ReturnStmt(Variable("i"))>>)),
              ReturnStmt(IntLit(0))>>)),
          Show(CallOf("f", <<>>)),
          Show(Literal(StrV("end")))>>,

     \* var n := 5; loop { show("in"); n(); } show("end");
     loop_error |->
        <<Var("n", IntLit(5)),
          LoopStmt(BlockStmt(<<Show(Literal(StrV("in"))), ExprStmt(CallOf("n", <<>>))>>)),
          Show(Literal(StrV("end")))>>,

     \* for var i := 1 to 3 { show(i); throw 7; }  show("end");
     for_throw |->
        <<ForStmt("i", IntLit(1), IntLit(3), NoNode,
                  BlockStmt(<<Show(Variable("i")), ThrowStmt(IntLit(7))>>)),
          Show(Literal(StrV("end")))>>,

     \* var z := 0; loop { z = 0; }
     spin |->
        <<Var("z", IntLit(0)), LoopStmt(BlockStmt(<<Set("z", IntLit(0))>>))>>]

PlainPrograms == DOMAIN PlainProgram

LogicPrograms == {"logic_stmt", "logic_return", "logic_nested"}

\* an input names a program; p and q select the operator and operand of a family
Inputs ==
    {<<n, 1, 1>> : n \in PlainPrograms}
        \cup (LogicPrograms \X (1..Len(LogicOps)) \X (1..Len(Lits)))
        \cup ({"for_count"} \X (1..Len(ForBounds)) \X (1..(Len(ForSteps) + 1)))
        \cup ({"match_arm"} \X (1..Len(MatchSubjects)) \X (1..4))
        \cup ({"call_args"} \X (1..4) \X {1})
        \cup ({"count_loop"} \X (1..Len(CountShapes)) \X (1..Len(CountLimits)))
        \cup ({"inc_assign"} \X (1..Len(IncTargets)) \X (1..2))
        \cup ({"ast_call_args"} \X (1..4) \X {1})

Program(in) ==
    IF in[1] = "logic_stmt" THEN ProgLogicStmt(LogicOps[in[2]], Lits[in[3]])
    ELSE IF in[1] = "logic_return" THEN ProgLogicReturn(LogicOps[in[2]], Lits[in[3]])
    ELSE IF in[1] = "logic_nested" THEN ProgLogicNested(LogicOps[in[2]], Lits[in[3]])
    ELSE IF in[1] = "for_count" THEN ProgFor(ForBounds[in[2]], in[3])
    ELSE IF in[1] = "match_arm" THEN ProgMatch(MatchSubjects[in[2]], in[3])
    ELSE IF in[1] = "call_args" THEN ProgCall(in[2] - 1)
    ELSE IF in[1] = "count_loop" THEN ProgCount(CountShapes[in[2]], CountLimits[in[3]])
    ELSE IF in[1] = "inc_assign" THEN ProgInc(IncTargets[in[2]], in[3])
    ELSE IF in[1] = "ast_call_args" THEN ProgAstCall(in[2] - 1)
    ELSE PlainProgram[in[1]]

(***************************************************************************)
(* The type checker on its own: TypeChecker().check(ast) over a family of  *)
(* annotated programs.                                                     *)
(***************************************************************************)
\* annotations of the checked programs; NoType is no annotation
TypeAnns == <<NoType, "int", "string", "number", "any", "bool">>

\* literals of the checked programs
TypeLits == <<IntV(1), StrV("a"), BoolV(TRUE), None>>

\* where the checked statements stand: at top level, in a block, in a try block
TypeWraps == {"plain", "block", "try"}

\* how the checked function is declared: function f(..) {..} or var f := function(..) {..}
FunctionForms == {"stmt", "expr"}

AnnNode(ann) == IF ann = NoType THEN NoNode ELSE TypeAnnotation(ann)

\* var x: ann := init; x = asg;
ProgTypedLet(ann, init, asg) ==
    <<LetStmtTyped("x", Literal(init), FALSE, TRUE, AnnNode(ann)), Set("x", Literal(asg))>>

\* function f(a: pann): rann { return ret; }  f(arg);
ProgTypedFunction(form, pann, arg, rann, ret) ==
    LET pts == IF pann = NoType THEN NoValues ELSE [p \in {"a"} |-> TypeAnnotation(pann)]
        body == BlockStmt(<<ReturnStmt(Literal(ret))>>)
    IN <<IF form = "stmt" THEN FunctionStmtTyped("f", <<"a">>, body, pts, AnnNode(rann))
         ELSE LetStmt("f", FunctionExprTyped("f", <<"a">>, body, pts, AnnNode(rann)),
                      FALSE, TRUE),
         ExprStmt(CallOf("f", <<Literal(arg)>>))>>

TypedInputs ==
    ({"let"} \X TypeWraps \X (1..Len(TypeAnns)) \X (1..Len(TypeLits)) \X (1..Len(TypeLits)))
    \cup ({"function"} \X FunctionForms \X (1..3) \X (1..Len(TypeLits)) \X (1..3)
              \X (1..Len(TypeLits)))

\* the AST of a checked program
TypedProgram(in) ==
    IF in[1] = "let"
    THEN LET ss == ProgTypedLet(TypeAnns[in[3]], TypeLits[in[4]], TypeLits[in[5]])
         IN IF in[2] = "plain" THEN ss
            ELSE IF in[2] = "block" THEN <<BlockStmt(ss)>>
            ELSE <<TryCatchStmt(BlockStmt(ss), "e", BlockStmt(<<>>))>>
    ELSE ProgTypedFunction(in[2], TypeAnns[in[3]], TypeLits[in[4]], TypeAnns[in[5]],
                           TypeLits[in[6]])

(***************************************************************************)
(* The state machine: one program is compiled and run by the VM, then run  *)
(* by a fresh tree interpreter, as the parity harness does.                *)
(***************************************************************************)
\* bound on dispatch-loop turns of one VM run
MaxSteps == 90

\* bound on loop iterations and calls of one interpreter
MaxFuel == 12

\* names compile_module is called with: its default, and the harness's
ModuleNames == {"<module>", "<parity>"}

\* the builtins mapping the executors are constructed from: as shipped, or with
\* builtins.show added to it by the embedding
BuiltinMaps == {BUILTINS, BUILTINS \cup {"show"}}

NoCode == Code("", <<>>, <<>>, 0, 0)

VARIABLES
    input,        \* the program given to both executors
    name,         \* the name argument of compile_module
    builtins,     \* keys of the builtins mapping
    pc,           \* position of the harness
    compiled,     \* outcome of compile_module: CompileError message and Code
    vm,           \* the VM: frames, globals, fallback interpreter, status, result
    steps,        \* dispatch-loop turns taken
    interp,       \* the tree interpreter: environments, _loop_depth, stdout
    next_stmt,    \* index of the top-level statement interpret() executes next
    interp_status, \* "idle", "running", "done", "error" or "fuel"
    typed,        \* the program given to the type checker
    checker,      \* the TypeChecker, the statement check() is at, and how check() ended
    promise,      \* a Promise object
    handles,      \* whether the program holds the promise's resolve and reject closures
    ops,          \* the operations performed on the promise so far
    calls,        \* the callback invocations so far: <<callback, argument>>
    source,       \* what the runner finds at its path
    cached,       \* whether _compile_cache holds an entry for the path and its mtime
    exit_code,    \* what runner.main returned, NoExit before it returns
    lexer,        \* a Lexer object
    lexed,        \* "idle", or lex() is "running", has "returned" or has "raised"
    compiler      \* a Compiler object that is used again: its loop_stack, and its calls so far

mainVars == <<input, name, builtins, pc, compiled, vm, steps, interp, next_stmt, interp_status>>

\* state of the components that are exercised on their own
auxVars ==
    <<typed, checker, promise, handles, ops, calls, source, cached, exit_code, lexer, lexed,
      compiler>>

vars == <<mainVars, auxVars>>

\* no type check is under way
TypesIdle ==
    /\ typed = <<>>
    /\ checker = [tc |-> NewTypeChecker, next |-> 1, status |-> "idle"]

\* no promise is in use
PromiseIdle ==
    /\ promise = NewPromise
    /\ handles = FALSE
    /\ ops = <<>>
    /\ calls = <<>>

\* runner.main has not returned
NoExit == -1

\* the runner is not in use
RunnerIdle ==
    /\ source = "ok"
    /\ cached = FALSE
    /\ exit_code = NoExit

\* no lexer is in use
LexerIdle ==
    /\ lexer = Lexer(<<>>)
    /\ lexed = "idle"

\* a new Compiler: Compiler()
CompilerIdle == compiler = [loop_stack |-> <<>>, calls |-> 0]

Init ==
    /\ input \in Inputs
    /\ name \in ModuleNames
    /\ builtins \in BuiltinMaps
    /\ pc = "compile"
    /\ compiled = [err |-> "", code |-> NoCode]
    /\ vm = VMState(<<>>, <<VMGlobals(builtins)>>, NewInterpreter(builtins, MaxFuel), "idle", None)
    /\ steps = 0
    /\ interp = NewInterpreter(builtins, MaxFuel)
    /\ next_stmt = 1
    /\ interp_status = "idle"
    /\ TypesIdle
    /\ PromiseIdle
    /\ RunnerIdle
    /\ LexerIdle
    /\ CompilerIdle

\* Compiler().compile_module(ast, name)
Compile ==
    /\ pc = "compile"
    /\ LET cs == CompileModule(Program(input), name)
       IN /\ compiled' = [err |-> cs.err, code |-> IF cs.err = "" THEN CodeOf(cs) ELSE NoCode]
          /\ pc' = IF cs.err = "" THEN "run_code" ELSE "interpret"
    /\ UNCHANGED <<input, name, builtins, vm, steps, interp, next_stmt, interp_status>>
    /\ UNCHANGED auxVars

\* VM.run_code: the top-level frame is created
VMRunCode ==
    /\ pc = "run_code"
    /\ vm' = RunCode(compiled.code, builtins, MaxFuel)
    /\ pc' = "run_frame"
    /\ UNCHANGED <<input, name, builtins, compiled, steps, interp, next_stmt, interp_status>>
    /\ UNCHANGED auxVars

\* one turn of the dispatch loop
VMStep ==
    /\ pc = "run_frame"
    /\ vm.status = "running"
    /\ steps < MaxSteps
    /\ vm' = VMExec(vm)
    /\ steps' = steps + 1
    /\ UNCHANGED <<input, name, builtins, pc, compiled, interp, next_stmt, interp_status>>
    /\ UNCHANGED auxVars

\* run_code has returned or raised (or the step bound is reached)
VMFinish ==
    /\ pc = "run_frame"
    /\ vm.status # "running" \/ steps = MaxSteps
    /\ vm' = [vm EXCEPT !.status = IF @ = "running" THEN "fuel" ELSE @]
    /\ pc' = "interpret"
    /\ UNCHANGED <<input, name, builtins, compiled, steps, interp, next_stmt, interp_status>>
    /\ UNCHANGED auxVars

\* Interpreter().interpret(ast): hoisting
Interpret ==
    /\ pc = "interpret"
    /\ interp' = [interp EXCEPT !.heap = HoistVars(@, Program(input), 1)]
    /\ interp_status' = "running"
    /\ pc' = "execute"
    /\ UNCHANGED <<input, name, builtins, compiled, vm, steps, next_stmt>>
    /\ UNCHANGED auxVars

\* interpret(): one top-level statement; any exception ends the run
ExecuteStmt ==
    /\ pc = "execute"
    /\ interp_status = "running"
    /\ next_stmt <= Len(Program(input))
    /\ LET r == Execute(interp, Program(input)[next_stmt], 1)
       IN /\ interp' = r.I
          /\ interp_status' = IF r.sig = "ok" THEN "running"
                              ELSE IF r.sig = "fuel" THEN "fuel" ELSE "error"
    /\ next_stmt' = next_stmt + 1
    /\ UNCHANGED <<input, name, builtins, pc, compiled, vm, steps>>
    /\ UNCHANGED auxVars

\* interpret() has returned or raised
InterpretFinish ==
    /\ pc = "execute"
    /\ interp_status # "running" \/ next_stmt > Len(Program(input))
    /\ interp_status' = IF interp_status = "running" THEN "done" ELSE interp_status
    /\ pc' = "done"
    /\ UNCHANGED <<input, name, builtins, compiled, vm, steps, interp, next_stmt>>
    /\ UNCHANGED auxVars

Next ==
    \/ Compile
    \/ VMRunCode
    \/ VMStep
    \/ VMFinish
    \/ Interpret
    \/ ExecuteStmt
    \/ InterpretFinish

Spec == Init /\ [][Next]_vars

\* the harness at rest: nothing is compiled or run
MainIdle ==
    /\ input = <<"arith", 1, 1>>
    /\ name = "<module>"
    /\ builtins = BUILTINS
    /\ pc = "idle"
    /\ compiled = [err |-> "", code |-> NoCode]
    /\ vm = VMState(<<>>, <<VMGlobals(BUILTINS)>>, NewInterpreter(BUILTINS, MaxFuel), "idle", None)
    /\ steps = 0
    /\ interp = NewInterpreter(BUILTINS, MaxFuel)
    /\ next_stmt = 1
    /\ interp_status = "idle"

InitTypes ==
    /\ MainIdle
    /\ PromiseIdle
    /\ RunnerIdle
    /\ LexerIdle
    /\ CompilerIdle
    /\ typed \in TypedInputs
    /\ checker = [tc |-> NewTypeChecker, next |-> 1, status |-> "running"]

\* TypeChecker.check: one turn of its loop over the top-level statements
TypeCheckStmt ==
    /\ checker.status = "running"
    /\ checker.next <= Len(TypedProgram(typed))
    /\ LET c == CheckStmt(checker.tc, TypedProgram(typed)[checker.next])
       IN checker' = [tc |-> c.tc, next |-> checker.next + 1,
                      status |-> IF c.err THEN "error" ELSE "running"]
    /\ UNCHANGED <<mainVars, typed, promise, handles, ops, calls, source, cached, exit_code>>
    /\ UNCHANGED <<lexer, lexed, compiler>>

\* TypeChecker.check returns
TypeCheckReturn ==
    /\ checker.status = "running"
    /\ checker.next > Len(TypedProgram(typed))
    /\ checker' = [checker EXCEPT !.status = "ok"]
    /\ UNCHANGED <<mainVars, typed, promise, handles, ops, calls, source, cached, exit_code>>
    /\ UNCHANGED <<lexer, lexed, compiler>>

NextTypes ==
    \/ TypeCheckStmt
    \/ TypeCheckReturn

SpecTypes == InitTypes /\ [][NextTypes]_vars

\* bound on the operations performed on one promise
MaxOps == 5

\* the callbacks the program registers
CallbackNames == {NativeV("f"), NativeV("g"), NativeV("h")}

\* the values the program settles the promise with
SettleValues == {IntV(1), IntV(2)}

\* the ways the promise is constructed
PromiseForms ==
    ({"none", "keep", "raise"} \X {None})
    \cup ({"resolve", "reject", "static_resolve", "static_reject"} \X SettleValues)

Op(op, arg) == [op |-> op, arg |-> arg]

InitPromise ==
    /\ MainIdle
    /\ TypesIdle
    /\ RunnerIdle
    /\ LexerIdle
    /\ CompilerIdle
    /\ \E form \in PromiseForms :
          /\ promise = PromiseNew(form[1], form[2])
          /\ handles = (form[1] = "keep")
          /\ ops = <<Op(form[1], form[2])>>
    /\ calls = <<>>

\* p.then(fn)
Then ==
    /\ Len(ops) < MaxOps
    /\ \E fn \in CallbackNames :
          /\ promise' = PromiseThen(promise, fn).p
          /\ calls' = calls \o PromiseThen(promise, fn).calls
          /\ ops' = Append(ops, Op("then", fn))
    /\ UNCHANGED <<mainVars, typed, checker, handles, source, cached, exit_code, lexer, lexed, compiler>>

\* p.catch(fn)
Catch ==
    /\ Len(ops) < MaxOps
    /\ \E fn \in CallbackNames :
          /\ promise' = PromiseCatch(promise, fn).p
          /\ calls' = calls \o PromiseCatch(promise, fn).calls
          /\ ops' = Append(ops, Op("catch", fn))
    /\ UNCHANGED <<mainVars, typed, checker, handles, source, cached, exit_code, lexer, lexed, compiler>>

\* the kept resolve closure is called
Resolve ==
    /\ Len(ops) < MaxOps
    /\ handles
    /\ \E v \in SettleValues :
          /\ promise' = PromiseResolve(promise, v).p
          /\ calls' = calls \o PromiseResolve(promise, v).calls
          /\ ops' = Append(ops, Op("resolve", v))
    /\ UNCHANGED <<mainVars, typed, checker, handles, source, cached, exit_code, lexer, lexed, compiler>>

\* the kept reject closure is called
Reject ==
    /\ Len(ops) < MaxOps
    /\ handles
    /\ \E e \in SettleValues :
          /\ promise' = PromiseReject(promise, e).p
          /\ calls' = calls \o PromiseReject(promise, e).calls
          /\ ops' = Append(ops, Op("reject", e))
    /\ UNCHANGED <<mainVars, typed, checker, handles, source, cached, exit_code, lexer, lexed, compiler>>

NextPromise ==
    \/ Then
    \/ Catch
    \/ Resolve
    \/ Reject

SpecPromise == InitPromise /\ [][NextPromise]_vars

(***************************************************************************)
(* The runner (runner.py): main(argv) and run_file(path).  The harness      *)
(* variables hold the run: name is the path, which run_file also passes to  *)
(* compile_module as the module name.                                       *)
(***************************************************************************)
\* argv[0]: absent (""), a file of another suffix, a .fn file
RunnerPaths == {"", "prog.txt", "prog.fn"}

\* what is at the path: no file, a file that cannot be read, text the Lexer or the
\* Parser rejects, text that parses to the program
Sources == {"missing", "unreadable", "lex_error", "parse_error", "ok"}

InitRunner ==
    /\ input \in Inputs
    /\ name \in RunnerPaths
    /\ builtins \in BuiltinMaps
    /\ source \in Sources
    /\ cached \in BOOLEAN
    /\ (name # "prog.fn" \/ source # "ok") => (input = <<"arith", 1, 1>> /\ ~cached)
    /\ (name # "prog.fn") => (source = "ok" /\ builtins = BUILTINS)
    \* an entry is stored only by a run that got past the type check
    /\ cached => ~CheckStmts(NewTypeChecker, Program(input), 1).err
    /\ pc = "main"
    /\ compiled = [err |-> "", code |-> NoCode]
    /\ vm = VMState(<<>>, <<VMGlobals(builtins)>>, NewInterpreter(builtins, MaxFuel), "idle", None)
    /\ steps = 0
    /\ interp = NewInterpreter(builtins, MaxFuel)
    /\ next_stmt = 1
    /\ interp_status = "idle"
    /\ exit_code = NoExit
    /\ TypesIdle
    /\ PromiseIdle
    /\ LexerIdle
    /\ CompilerIdle

\* main returns code
Exit(code) ==
    /\ pc' = "exit"
    /\ exit_code' = code

\* main: argv is empty (1), the suffix is not .fn (2), else run_file(path)
RunnerMain ==
    /\ pc = "main"
    /\ IF name = "" THEN Exit(1)
       ELSE IF name # "prog.fn" THEN Exit(2)
       ELSE pc' = "read" /\ UNCHANGED exit_code
    /\ UNCHANGED <<input, name, builtins, compiled, vm, steps, interp, next_stmt, interp_status>>
    /\ UNCHANGED <<typed, checker, promise, handles, ops, calls, source, cached, lexer, lexed, compiler>>

\* run_file: read_source; FileNotFoundError reaches main's first handler (2), any
\* other exception its second (4)
RunnerRead ==
    /\ pc = "read"
    /\ IF source = "missing" THEN Exit(2)
       ELSE IF source = "unreadable" THEN Exit(4)
       ELSE pc' = "parse" /\ UNCHANGED exit_code
    /\ UNCHANGED <<input, name, builtins, compiled, vm, steps, interp, next_stmt, interp_status>>
    /\ UNCHANGED <<typed, checker, promise, handles, ops, calls, source, cached, lexer, lexed, compiler>>

\* run_file: Lexer(src).lex() and Parser(tokens).parse(); LexerError and ParseError
\* are not caught in run_file and reach main's `except Exception` (4)
RunnerParse ==
    /\ pc = "parse"
    /\ IF source \in {"lex_error", "parse_error"} THEN Exit(4)
       ELSE pc' = "check" /\ UNCHANGED exit_code
    /\ UNCHANGED <<input, name, builtins, compiled, vm, steps, interp, next_stmt, interp_status>>
    /\ UNCHANGED <<typed, checker, promise, handles, ops, calls, source, cached, lexer, lexed, compiler>>

\* run_file: TypeChecker().check(ast); TypeCheckError reaches main's `except
\* Exception` (4).  With a cache entry the code object is taken from it.
RunnerTypeCheck ==
    /\ pc = "check"
    /\ IF CheckStmts(NewTypeChecker, Program(input), 1).err THEN Exit(4)
       ELSE pc' = (IF cached THEN "cached" ELSE "compile") /\ UNCHANGED exit_code
    /\ UNCHANGED <<input, name, builtins, compiled, vm, steps, interp, next_stmt, interp_status>>
    /\ UNCHANGED <<typed, checker, promise, handles, ops, calls, source, cached, lexer, lexed, compiler>>

\* run_file: code_obj = cache_entry[1], which an earlier run stored for the same path
\* and mtime: the Code, or None when compile_module had raised
RunnerCached ==
    /\ pc = "cached"
    /\ LET cs == CompileModule(Program(input), name)
       IN /\ compiled' = [err |-> cs.err, code |-> IF cs.err = "" THEN CodeOf(cs) ELSE NoCode]
          /\ pc' = IF cs.err = "" THEN "run_code" ELSE "interpret"
    /\ UNCHANGED <<input, name, builtins, vm, steps, interp, next_stmt, interp_status>>
    /\ UNCHANGED auxVars

\* whether run_file goes on to the interpreter after vm.run_code: it returns 0 when
\* run_code returned and falls through when it raised
FallsBackAlways(status) == TRUE

FallsBack(status) == status = "error"

\* run_file: vm.run_code has returned (0) or raised (fall back to the interpreter);
\* "cut" is a run that does not end within the step bound
RunnerVMEnd ==
    /\ pc = "run_frame"
    /\ vm.status # "running" \/ steps = MaxSteps
    /\ IF vm.status = "running" THEN pc' = "cut" /\ UNCHANGED exit_code
       ELSE IF FallsBack(vm.status) THEN pc' = "interpret" /\ UNCHANGED exit_code
       ELSE Exit(0)
    /\ UNCHANGED <<input, name, builtins, compiled, vm, steps, interp, next_stmt, interp_status>>
    /\ UNCHANGED <<typed, checker, promise, handles, ops, calls, source, cached, lexer, lexed, compiler>>

\* run_file: interp.interpret(ast) has returned (0) or raised (3)
RunnerInterpretEnd ==
    /\ pc = "execute"
    /\ interp_status # "running" \/ next_stmt > Len(Program(input))
    /\ interp_status' = IF interp_status = "running" THEN "done" ELSE interp_status
    /\ IF interp_status = "fuel" THEN pc' = "cut" /\ UNCHANGED exit_code
       ELSE IF interp_status = "error" THEN Exit(3)
       ELSE Exit(0)
    /\ UNCHANGED <<input, name, builtins, compiled, vm, steps, interp, next_stmt>>
    /\ UNCHANGED <<typed, checker, promise, handles, ops, calls, source, cached, lexer, lexed, compiler>>

NextRunner ==
    \/ RunnerMain
    \/ RunnerRead
    \/ RunnerParse
    \/ RunnerTypeCheck
    \/ Compile
    \/ RunnerCached
    \/ VMRunCode
    \/ VMStep
    \/ RunnerVMEnd
    \/ Interpret
    \/ ExecuteStmt
    \/ RunnerInterpretEnd

SpecRunner == InitRunner /\ [][NextRunner]_vars

(***************************************************************************)
(* The lexer on its own: Lexer(source).lex() over every source up to a     *)
(* length.                                                                 *)
(***************************************************************************)
\* bound on the length of a source
MaxLen == 4

\* the characters of the sources
LexChars == {"a", "1", "\"", "\\", "\n", "/", "*", "=", ":", " "}

LexSources == UNION {[1..n -> LexChars] : n \in 0..MaxLen}

InitLexer ==
    /\ MainIdle
    /\ TypesIdle
    /\ PromiseIdle
    /\ RunnerIdle
    /\ CompilerIdle
    /\ \E src \in LexSources : lexer = Lexer(src)
    /\ lexed = "running"

\* lex(): one turn of its loop
LexScanToken ==
    /\ lexed = "running"
    /\ ~IsAtEnd(lexer)
    /\ lexer' = ScanToken(lexer)
    /\ lexed' = IF ScanToken(lexer).err # "" THEN "raised" ELSE "running"
    /\ UNCHANGED <<mainVars, typed, checker, promise, handles, ops, calls, source, cached, exit_code, compiler>>

\* lex(): the loop has ended, the EOF token is added and the tokens are returned
LexReturn ==
    /\ lexed = "running"
    /\ IsAtEnd(lexer)
    /\ lexer' = LexEof(lexer)
    /\ lexed' = "returned"
    /\ UNCHANGED <<mainVars, typed, checker, promise, handles, ops, calls, source, cached, exit_code, compiler>>

NextLexer ==
    \/ LexScanToken
    \/ LexReturn

SpecLexer == InitLexer /\ [][NextLexer]_vars

(***************************************************************************)
(* One Compiler object on which compile_module is called several times.    *)
(***************************************************************************)
\* bound on the compile_module calls on the object
MaxCompiles == 3

\* the programs given to it
CompileUnits ==
    {<<n, 1, 1>> : n \in {"add", "arith", "while_break", "for_break", "nested_break",
                          "break_top", "break_in_function", "break_in_nested_function",
                          "counting_loop_break", "counting_loop_in_while"}}

\* what compile_module has returned or raised, given the compiler it ended with
CompileOutcome(cs) == [err |-> cs.err, code |-> IF cs.err = "" THEN CodeOf(cs) ELSE NoCode]

InitCompiler ==
    /\ MainIdle
    /\ TypesIdle
    /\ PromiseIdle
    /\ RunnerIdle
    /\ LexerIdle
    /\ CompilerIdle

\* compiler.compile_module(ast, name) on the same object
CompileAgain ==
    /\ compiler.calls < MaxCompiles
    /\ \E in \in CompileUnits, n \in ModuleNames :
          /\ input' = in
          /\ name' = n
          /\ compiled' = CompileOutcome(CompileModuleOn(compiler.loop_stack, Program(in), n))
          /\ compiler' = [loop_stack |->
                              CompileModuleOn(compiler.loop_stack, Program(in), n).loop_stack,
                          calls |-> compiler.calls + 1]
    /\ UNCHANGED <<builtins, pc, vm, steps, interp, next_stmt, interp_status>>
    /\ UNCHANGED <<typed, checker, promise, handles, ops, calls, source, cached, exit_code,
                   lexer, lexed>>

NextCompiler == CompileAgain

SpecCompiler == InitCompiler /\ [][NextCompiler]_vars

\* stdout of the VM run and of the interpreter run
VMOut == vm.interpreter.out

InterpOut == interp.out

(***************************************************************************)
(* Observations used by the properties.                                    *)
(***************************************************************************)
\* the harness is past compile_module and it returned a Code
Compiled == pc # "compile" /\ compiled.err = ""

\* run_code has returned or raised
VMEnded == vm.status \in {"done", "error"}

VMRunning == vm.status = "running" /\ vm.frames # <<>>

TopFrame == vm.frames[Len(vm.frames)]

\* the top frame is about to execute an instruction with opcode op
AtOp(op) ==
    /\ VMRunning
    /\ TopFrame.ip < Len(TopFrame.code.instructions)
    /\ TopFrame.ip >= 0 - Len(TopFrame.code.instructions)
    /\ Fetch(TopFrame.code, TopFrame.ip).op = op

JumpOps == {"JUMP", "JUMP_IF_FALSE", "JUMP_IF_GE_LOCAL_IMM"}

JumpTarget(ins) == IF ins.op = "JUMP_IF_GE_LOCAL_IMM" THEN ins.arg[3] ELSE ins.arg

RECURSIVE JumpsValid(_)
\* every jump of code, and of every Code among its constants, targets 0..len(instructions)
JumpsValid(code) ==
    /\ \A i \in 1..Len(code.instructions) :
          code.instructions[i].op \in JumpOps =>
              /\ JumpTarget(code.instructions[i]) >= 0
              /\ JumpTarget(code.instructions[i]) <= Len(code.instructions)
    /\ \A i \in 1..Len(code.consts) :
          ("t" \in DOMAIN code.consts[i] /\ code.consts[i].t = "code") =>
              JumpsValid(code.consts[i])

\* the value of `a op b` as the language defines it, and whether b is evaluated
ShortCircuit(op, a, b) ==
    IF op = "&&" THEN (IF IsTruthy(a) THEN b ELSE a) ELSE (IF IsTruthy(a) THEN a ELSE b)

EvaluatesRight(op, a) == IF op = "&&" THEN IsTruthy(a) ELSE ~IsTruthy(a)

RECURSIVE StrayBreak(_, _), StrayBreakIn(_, _)
\* node holds a break that no while, for or loop body of the same function encloses
StrayBreak(node, in_loop) ==
    IF node.k = "BreakStmt" THEN ~in_loop
    ELSE IF node.k = "BlockStmt" THEN StrayBreakIn(node.body, in_loop)
    ELSE IF node.k = "IfStmt" THEN
        \/ StrayBreak(node.condition, in_loop)
        \/ StrayBreak(node.then_branch, in_loop)
        \/ StrayBreak(node.else_branch, in_loop)
    ELSE IF node.k = "WhileStmt" THEN
        StrayBreak(node.condition, in_loop) \/ StrayBreak(node.body, TRUE)
    ELSE IF node.k = "ForStmt" THEN
        \/ StrayBreakIn(<<node.start, node.end, node.step>>, in_loop)
        \/ StrayBreak(node.body, TRUE)
    ELSE IF node.k = "LoopStmt" THEN StrayBreak(node.body, TRUE)
    ELSE IF node.k \in {"FunctionStmt", "FunctionExpr"} THEN StrayBreak(node.body, FALSE)
    ELSE IF node.k = "LetStmt" THEN StrayBreak(node.initializer, in_loop)
    ELSE IF node.k = "ExprStmt" THEN StrayBreak(node.expr, in_loop)
    ELSE IF node.k \in {"ReturnStmt", "ThrowStmt"} THEN StrayBreak(node.value, in_loop)
    ELSE IF node.k = "Binary" THEN
        StrayBreak(node.left, in_loop) \/ StrayBreak(node.right, in_loop)
    ELSE IF node.k = "Unary" THEN StrayBreak(node.operand, in_loop)
    ELSE IF node.k = "Grouping" THEN StrayBreak(node.expression, in_loop)
    ELSE IF node.k = "Assign" THEN StrayBreak(node.value, in_loop)
    ELSE IF node.k = "Call" THEN
        StrayBreak(node.callee, in_loop) \/ StrayBreakIn(node.arguments, in_loop)
    ELSE FALSE

StrayBreakIn(nodes, in_loop) ==
    \E i \in 1..Len(nodes) : StrayBreak(nodes[i], in_loop)

HasStrayBreak == StrayBreakIn(Program(input), FALSE)

\* the programs whose breaks all sit in loop bodies, with the lines they print when
\* each break leaves exactly its innermost loop
BreakOut ==
    [while_break |-> <<"2">>,
     for_break |-> <<"1", "2", "9">>,
     loop_break |-> <<"1", "2", "3">>,
     nested_break |-> <<"1", "2", "9">>,
     while_in_loop_break |-> <<"1", "2", "9">>,
     counting_loop_break |-> <<"1", "1">>,
     counting_loop_in_while |-> <<"1", "2", "2">>]

(***************************************************************************)
(* Properties.                                                             *)
(***************************************************************************)
\* C1: closure counter.  With show bound, the compiled closure program (make returns
\* bump, which increments the captured n) run on the VM prints 1, 2, 3: the k-th call
\* of the function returned by make returns k.
C1_ClosureCounter ==
    (input[1] = "closure" /\ "show" \in builtins /\ VMEnded) => VMOut = <<"1", "2", "3">>

\* C2: VM / interpreter parity.  For every closure-free program that compiles, the
\* lines printed by the VM run of the compiled Code and by Interpreter.interpret of
\* the same AST are the same sequence.
C2_Parity ==
    (input[1] # "closure" /\ Compiled /\ pc = "done"
        /\ vm.status # "fuel" /\ interp_status # "fuel") => VMOut = InterpOut

\* C3: short circuit.  In `var r := a op (x = 7)`, op one of && and ||, under both
\* executors r becomes a's value and x stays 0 when a decides the result, else r
\* becomes 7 and x becomes 7; and the compiled expression leaves exactly that one
\* value on the operand stack for the store into r.
C3_ShortCircuit ==
    input[1] = "logic_stmt" =>
        LET op == LogicOps[input[2]]
            a == Lits[input[3]]
            r == ShortCircuit(op, a, IntV(7))
            x == IF EvaluatesRight(op, a) THEN IntV(7) ELSE IntV(0)
            out == <<ToStringImpl(r), ToStringImpl(x)>>
            store == Fetch(TopFrame.code, TopFrame.ip)
        IN /\ (pc \in {"execute", "done"} /\ next_stmt > 2) =>
                  /\ Get(interp.heap, 1, "r").val = r
                  /\ Get(interp.heap, 1, "x").val = x
           /\ (pc = "done" /\ "show" \in builtins) => InterpOut = out
           /\ ((AtOp("STORE_GLOBAL") /\ store.arg = "r")
                 \/ (AtOp("STORE_LOCAL") /\ store.arg = 1)) => TopFrame.stack = <<r>>
           /\ (VMEnded /\ "show" \in builtins) => VMOut = out

\* C4: jump targets.  Every jump of every Code compile_module produces (nested
\* function Codes included) targets an index in 0..len(instructions), and the ip of
\* every VM frame stays in 0..len(instructions).
C4_JumpTargets ==
    Compiled =>
        /\ JumpsValid(compiled.code)
        /\ \A i \in 1..Len(vm.frames) :
              /\ vm.frames[i].ip >= 0
              /\ vm.frames[i].ip <= Len(vm.frames[i].code.instructions)

\* C5: stack at RETURN.  Whenever a VM frame is about to execute RETURN its operand
\* stack holds exactly one value, the value returned.
C5_StackAtReturn == AtOp("RETURN") => Len(TopFrame.stack) = 1

\* C6: const reassignment.  In the programs that declare const k := 1 and then run
\* k = 2, under either executor the assignment is an error (so nothing is printed and
\* the run ends in error) and k still holds 1.
C6_ConstAssign ==
    input[1] \in {"const_assign", "const_local"} =>
        /\ VMOut = <<>>
        /\ VMEnded => vm.status = "error"
        /\ \A g \in DOMAIN vm.globals :
              "k" \in DOMAIN vm.globals[g] => vm.globals[g]["k"] = IntV(1)
        /\ InterpOut = <<>>
        /\ pc = "done" => interp_status = "error"
        /\ \A e \in 1..Len(interp.heap) :
              "k" \in interp.heap[e].consts => interp.heap[e].values["k"] = IntV(1)

\* C7: const redefinition.  After `const k := 1`, Environment.define of k in the same
\* scope (`var k := 2`) is an error, and a const name of a scope always holds the
\* value it was first defined with.
C7_ConstDefine ==
    input[1] = "const_redefine" =>
        /\ (pc \in {"execute", "done"} /\ next_stmt > 2) => interp_status = "error"
        /\ "k" \in interp.heap[1].consts => interp.heap[1].values["k"] = IntV(1)

\* C8: stray break.  For every program holding a break that no while, for or loop
\* body of the same function encloses, compile_module raises CompileError and
\* produces no Code.
C8_StrayBreakRejected ==
    (HasStrayBreak /\ pc # "compile") => (compiled.err # "" /\ compiled.code = NoCode)

\* C9: compiled break.  A program whose breaks all sit in loop bodies compiles, and
\* with show bound its VM run prints what it prints when every break leaves exactly
\* its innermost loop.
C9_CompiledBreak ==
    (input[1] \in DOMAIN BreakOut /\ pc # "compile") =>
        /\ compiled.err = ""
        /\ (VMEnded /\ "show" \in builtins) =>
              (vm.status = "done" /\ VMOut = BreakOut[input[1]])

\* C10: interpreted break.  With show bound, the interpreter run of a program whose
\* breaks all sit in loop bodies completes and prints what it prints when every break
\* leaves exactly its innermost loop; and executing a break with no loop active ends
\* the run in a runtime error.
C10_InterpretedBreak ==
    pc = "done" =>
        /\ (input[1] \in DOMAIN BreakOut /\ "show" \in builtins) =>
              (interp_status = "done" /\ InterpOut = BreakOut[input[1]])
        /\ input[1] \in {"break_top", "break_in_function"} => interp_status = "error"

\* the step of a counting for-loop program: 1 when its header has no step clause
ForStepOf(in) == IF in[3] > Len(ForSteps) THEN 1 ELSE ForSteps[in[3]]

RECURSIVE ForCount(_, _, _)
\* the lines show(i) prints for i = s, s + k, ... while i <= e (k > 0) or i >= e (k < 0)
ForCount(i, e, k) ==
    IF (k > 0 /\ i <= e) \/ (k < 0 /\ i >= e)
    THEN <<ToStringImpl(IntV(i))>> \o ForCount(i + k, e, k)
    ELSE <<>>

\* what a counting for-loop program prints: one line per iteration, then "end"
ForOut ==
    ForCount(ForBounds[input[2]][1], ForBounds[input[2]][2], ForStepOf(input)) \o <<"end">>

\* C11: counting for loop.  With show bound and a non-zero step k (1 when the header
\* has no step clause), the loop body runs exactly once for each i in s, s + k, ...
\* with i <= e (k > 0) or i >= e (k < 0), in that order, and the program goes on
\* after the loop, on the VM and in the interpreter alike.
C11_ForLoop ==
    (input[1] = "for_count" /\ ForStepOf(input) # 0 /\ "show" \in builtins) =>
        /\ pc # "compile" => compiled.err = ""
        /\ pc \in {"interpret", "execute", "done"} =>
              (vm.status = "done" /\ VMOut = ForOut)
        /\ pc = "done" => (interp_status = "done" /\ InterpOut = ForOut)

\* both executors have run  for var i := 1 to 3 step 2  and printed 1, 3, end
C11_Witness ==
    /\ pc = "done"
    /\ input[1] = "for_count" /\ ForBounds[input[2]] = <<1, 3>> /\ ForStepOf(input) = 2
    /\ "show" \in builtins
    /\ vm.status = "done" /\ VMOut = <<"1", "3", "end">>
    /\ interp_status = "done" /\ InterpOut = <<"1", "3", "end">>

\* C12: zero step.  A for loop whose step evaluates to 0 ends the run in a runtime
\* error before the body runs, on the VM and in the interpreter alike: nothing is
\* printed, the loop is neither skipped nor run without end.
C12_ZeroStep ==
    (input[1] = "for_count" /\ ForStepOf(input) = 0) =>
        /\ pc \in {"interpret", "execute", "done"} =>
              (vm.status = "error" /\ VMOut = <<>>)
        /\ pc = "done" => (interp_status = "error" /\ InterpOut = <<>>)

\* the VM run of the program is over (run_code returned, raised or was cut off)
VMOver == pc \in {"interpret", "execute", "done"}

\* C13: undefined variable.  Reading a variable that no enclosing scope binds (q, at
\* module level or in a called function) ends the run in a runtime error under both
\* executors: the statements after the read do not run, the read never yields null.
C13_UndefinedRead ==
    (input[1] \in {"undefined_read", "undefined_in_function"} /\ "show" \in builtins) =>
        /\ VMOver => (vm.status = "error" /\ VMOut = <<>>)
        /\ pc = "done" => (interp_status = "error" /\ InterpOut = <<>>)

\* C15: hoisting.  In the interpreter, a var declared anywhere in the module or in a
\* function body outside nested functions (directly, in a block, in an if branch) is
\* bound to null before the first statement runs and takes its initializer's value
\* when the declaration is reached: with show bound, show(x) before the declaration
\* prints null and show(x) after it prints 1.
C15_Hoisting ==
    (input[1] \in {"hoist_module", "hoist_block", "hoist_if", "hoist_function"}
        /\ "show" \in builtins /\ pc = "done") =>
        (interp_status = "done" /\ InterpOut = <<"null", "1">>)

\* what the programs calling an AST-backed function print when its free variable is
\* the binding of the scope that created the function
FreeOut == [free_global |-> <<"6", "6">>, free_local |-> <<"2">>]

\* C18: free variables of AST-backed functions.  With show bound, a VM run that calls
\* an AST-backed function reading and assigning a variable of the scope that created
\* it (a module global, a local of the enclosing function) completes, the function
\* sees the binding's current value and its assignment updates that binding.
C18_AstFreeVariables ==
    (input[1] \in DOMAIN FreeOut /\ "show" \in builtins /\ VMOver) =>
        (vm.status = "done" /\ VMOut = FreeOut[input[1]])

\* the builtin names the language defines
SpecBuiltins ==
    {"show", "toString", "len", "range", "typeOf", "assert", "exit", "readFile",
     "writeFile", "Promise", "console"}

\* C19: builtins stay bound.  At every point, in the globals of the VM and in the
\* global environment of the interpreter, each builtin name of the language is bound
\* to its native callable.
C19_BuiltinsBound ==
    \A n \in SpecBuiltins :
        /\ \A g \in DOMAIN vm.globals :
              n \in DOMAIN vm.globals[g] /\ vm.globals[g][n] = NativeV(n)
        /\ n \in DOMAIN interp.heap[1].values /\ interp.heap[1].values[n] = NativeV(n)

\* C14: throw and catch.  In the interpreter, `throw 7` in a try block, directly or
\* in a function the block calls, transfers to the catch block with its identifier
\* bound to 7: the statements after the throw do not run, and execution goes on after
\* the try/catch without error (with show bound the run prints 7, after).
C14_ThrowCaught ==
    (input[1] \in {"try_catch", "try_catch_call"} /\ "show" \in builtins /\ pc = "done") =>
        (interp_status = "done" /\ InterpOut = <<"7", "after">>)

\* for each subject of the match programs, what the first arm in source order whose
\* pattern matches and whose guard is truthy yields; "" where only the last arm
\* `case _` of the longer programs qualifies
MatchChoice == <<"zero", "one", "two", "", "", "", "8", "", "">>

\* what a match program prints: the value of the arm chosen (a match expression
\* without one yields null, a match statement without one does nothing), then "end"
MatchOut ==
    LET first == MatchChoice[input[2]]
        chosen == IF first # "" THEN first ELSE IF input[3] > 2 THEN "other" ELSE ""
    IN (IF chosen # "" THEN <<chosen>>
        ELSE IF input[3] % 2 = 0 THEN <<"null">> ELSE <<>>) \o <<"end">>

C17_PatternBindings ==
    (input[1] \in {"match_list", "match_nested", "match_nested_guard"}
        /\ "show" \in builtins /\ pc = "done") =>
        /\ interp_status = "done"
        /\ InterpOut = (IF input[1] = "match_list" THEN <<"1", "2">>
                        ELSE IF input[1] = "match_nested" THEN <<"1", "2", "3">>
                        ELSE <<"3">>)

\* what the programs whose functions meet only through the globals print
SharedOut == [globals_shared |-> <<"7">>, mutual |-> <<"1">>]

\* C20: shared globals.  During a VM run the top-level frame and every code-backed
\* callee frame refer to the same globals map, so a STORE_GLOBAL of one frame is seen
\* by the later LOAD_GLOBAL of any other: with show bound, get() returns the 7 that
\* set() stored, and the mutually recursive even and odd find each other.
C20_SharedGlobals ==
    /\ \A i \in 1..Len(vm.frames) : vm.frames[i].globals = vm.frames[1].globals
    /\ (input[1] \in DOMAIN SharedOut /\ "show" \in builtins /\ VMOver) =>
          (vm.status = "done" /\ VMOut = SharedOut[input[1]])

\* the frame of set(), called from the top-level frame, has executed its STORE_GLOBAL:
\* the map both frames refer to binds g to 7
C20_Witness ==
    /\ input[1] = "globals_shared" /\ vm.status = "running"
    /\ Len(vm.frames) = 2
    /\ vm.frames[2].globals = vm.frames[1].globals
    /\ "g" \in DOMAIN vm.globals[vm.frames[1].globals]
    /\ vm.globals[vm.frames[1].globals]["g"] = IntV(7)

\* the arguments of the call of f(a, b) in the call programs
CallArgs == SubSeq(<<IntV(7), IntV(8), IntV(9)>>, 1, input[2] - 1)

\* the call of f has returned to the top-level frame: the next instruction is the
\* CALL of show, the one before it the CALL of f
BackFromCall ==
    /\ Len(vm.frames) = 1 /\ AtOp("CALL") /\ TopFrame.ip > 0
    /\ Fetch(TopFrame.code, TopFrame.ip - 1).op = "CALL"

\* C21: code-backed call.  When CALL n invokes the code-backed f(a, b), which has one
\* more local, the callee's frame starts with three slots: slot i holds the i-th
\* argument for i < min(n, 2), every other slot is null, a third argument is dropped.
\* When f has returned, the caller's stack holds, above the callee of the pending
\* call of show, the single value f returned (its first argument, or null).
C21_CodeBackedCall ==
    (input[1] = "call_args" /\ VMRunning) =>
        /\ (Len(vm.frames) = 2 /\ TopFrame.ip = 0) =>
              /\ TopFrame.stack = <<>>
              /\ TopFrame.locals =
                    [i \in 1..3 |-> IF i <= Len(CallArgs) /\ i <= 2 THEN CallArgs[i] ELSE None]
        /\ BackFromCall =>
              /\ Len(TopFrame.stack) = 2
              /\ TopFrame.stack[2] = (IF CallArgs = <<>> THEN None ELSE IntV(7))

\* f was called with 7, 8, 9 and has returned 7 to the frame that called it
C21_Witness ==
    /\ input = <<"call_args", 4, 1>> /\ VMRunning /\ BackFromCall
    /\ TopFrame.stack[2] = IntV(7)


\* C22: annotated assignment.  After var x: int := 10 the interpreter's x = "a" is an
\* error and x still holds 10: with show bound, the interpreter's run of the program
\* ends in error with nothing printed, and x never holds "a".
C22_TypedAssign ==
    (input[1] = "typed_assign" /\ "show" \in builtins) =>
        /\ InterpOut = <<>>
        /\ pc = "done" => interp_status = "error"
        /\ "x" \in DOMAIN interp.heap[1].values => interp.heap[1].values["x"] # StrV("a")


\* the inferred type of literal i of the checked programs
TypeOfLit(i) == InferLiteral(TypeLits[i])

\* some annotated site of the checked program receives an incompatible type
TypedMismatch ==
    IF typed[1] = "let"
    THEN /\ TypeAnns[typed[3]] # NoType
         /\ \/ ~Compatible(TypeOfLit(typed[4]), TypeAnns[typed[3]])
            \/ ~Compatible(TypeOfLit(typed[5]), TypeAnns[typed[3]])
    ELSE \/ TypeAnns[typed[3]] # NoType /\ ~Compatible(TypeOfLit(typed[4]), TypeAnns[typed[3]])
         \/ TypeAnns[typed[5]] # NoType /\ ~Compatible(TypeOfLit(typed[6]), TypeAnns[typed[5]])

\* at every annotated site of the checked program the inferred type is the declared one
TypedEqual ==
    IF typed[1] = "let"
    THEN \/ TypeAnns[typed[3]] = NoType
         \/ TypeOfLit(typed[4]) = TypeAnns[typed[3]] /\ TypeOfLit(typed[5]) = TypeAnns[typed[3]]
    ELSE /\ TypeAnns[typed[3]] = NoType \/ TypeOfLit(typed[4]) = TypeAnns[typed[3]]
         /\ TypeAnns[typed[5]] = NoType \/ TypeOfLit(typed[6]) = TypeAnns[typed[5]]

\* C23: type errors.  When check() has ended, it raised TypeCheckError if the
\* initializer, the assigned value, the argument or the returned value of the program
\* is incompatible with its annotation, and it returned normally if each of them has
\* exactly the declared type (or the site has no annotation).
C23_TypeErrors ==
    checker.status \in {"ok", "error"} =>
        /\ TypedMismatch => checker.status = "error"
        /\ TypedEqual => checker.status = "ok"


\* the operations of history h that settle a promise as `how` ("resolve" or "reject")
Settling(how) ==
    IF how = "resolve" THEN {"resolve", "static_resolve"}
    ELSE {"reject", "static_reject", "raise"}

\* the callbacks registered with `method` in history h, in registration order
Registered(h, method) ==
    LET regs == SelectSeq(h, LAMBDA o : o.op = method)
    IN [i \in 1..Len(regs) |-> regs[i].arg]

\* history h has settled the promise as `how`
Settled(h, how) == \E i \in 1..Len(h) : h[i].op \in Settling(how)

\* the value history h has last settled the promise with as `how`
SettledValue(h, how) ==
    LET i == CHOOSE j \in 1..Len(h) :
                 /\ h[j].op \in Settling(how)
                 /\ \A k \in (j + 1)..Len(h) : h[k].op \notin Settling(how)
    IN IF h[i].op = "raise" THEN ExecutorError ELSE h[i].arg

\* the calls an operation on the promise has to make, for the operations the claim
\* speaks of
PromiseCallsOf(h, o, made) ==
    /\ (o.op = "resolve" /\ ~Settled(h, "resolve") /\ ~Settled(h, "reject")) =>
           made = [i \in 1..Len(Registered(h, "then")) |-> <<Registered(h, "then")[i], o.arg>>]
    /\ (o.op = "reject" /\ ~Settled(h, "resolve") /\ ~Settled(h, "reject")) =>
           made = [i \in 1..Len(Registered(h, "catch")) |-> <<Registered(h, "catch")[i], o.arg>>]
    /\ (o.op = "then" /\ Settled(h, "resolve")) =>
           made = <<<<o.arg, SettledValue(h, "resolve")>>>>
    /\ (o.op = "catch" /\ Settled(h, "reject")) =>
           made = <<<<o.arg, SettledValue(h, "reject")>>>>

\* C24: promise callbacks.  Every operation on a promise only adds to the calls made,
\* and the calls it adds are: for resolve (reject) on a pending promise, the then
\* (catch) callbacks registered so far, in registration order, each with the settled
\* value; for then (catch) on a promise already resolved (rejected), that callback
\* alone with the settled value.
C24_PromiseCallbacks ==
    [][ops' # ops =>
           /\ Len(calls') >= Len(calls)
           /\ SubSeq(calls', 1, Len(calls)) = calls
           /\ PromiseCallsOf(ops, ops'[Len(ops')],
                             SubSeq(calls', Len(calls) + 1, Len(calls')))]_vars

\* then(f), then(g) on a pending promise, resolve(1), then then(h): f, g, h were called
\* with 1, in this order
C24_Witness ==
    /\ ops = <<Op("keep", None), Op("then", NativeV("f")), Op("then", NativeV("g")),
               Op("resolve", IntV(1)), Op("then", NativeV("h"))>>
    /\ calls = <<<<NativeV("f"), IntV(1)>>, <<NativeV("g"), IntV(1)>>,
                 <<NativeV("h"), IntV(1)>>>>


\* run_file has compiled and found the compilation or the VM run failed
VMPathFailed == compiled.err # "" \/ vm.status = "error"

\* the runner's interpreter has been invoked
Interpreted == interp_status # "idle"

\* C25: interpreter fallback.  In a run of the runner the tree interpreter is invoked
\* only when compile_module raised or the VM run raised, it is invoked in every such
\* run that returns, it is never invoked again once it was invoked, and it is not
\* invoked when the VM run completed.
C25_FallbackOnce ==
    /\ [][(~Interpreted /\ Interpreted') => VMPathFailed]_vars
    /\ [][Interpreted => pc' # "interpret"]_vars
    /\ []((pc = "exit" /\ VMPathFailed) => Interpreted)
    /\ [](vm.status = "done" => ~Interpreted)

\* a run whose VM run raised, whose interpreter then ran the same program to its end,
\* and which returned 0
C25_Witness ==
    /\ pc = "exit"
    /\ vm.status = "error"
    /\ interp_status = "done"
    /\ InterpOut # <<>>
    /\ exit_code = 0

\* C26: exit codes.  When main has returned: a source that does not lex or parse, and
\* a program whose run ended in a runtime error, gave exit code 1; and exit code 0 was
\* given only when the VM run or the interpreter run completed.
C26_ExitCodes ==
    pc = "exit" =>
        /\ (name = "prog.fn" /\ source \in {"lex_error", "parse_error"}) => exit_code = 1
        /\ interp_status = "error" => exit_code = 1
        /\ exit_code = 0 => (vm.status = "done" \/ interp_status = "done")


\* the source opens a string literal with its first character and never closes it
UnclosedString(src) ==
    /\ Len(src) >= 1
    /\ src[1] \in {"\"", "'"}
    /\ \A i \in 2..Len(src) : src[i] # src[1]

\* the source opens a block comment with its first two characters and never closes it
UnclosedComment(src) ==
    /\ Len(src) >= 2
    /\ src[1] = "/" /\ src[2] = "*"
    /\ \A i \in 3..(Len(src) - 1) : ~(src[i] = "*" /\ src[i + 1] = "/")

\* C27: unterminated literals.  When lex() has ended on a source that consists of a
\* string literal or of a block comment that is not closed, it has raised, and what it
\* raised is LexerError.
C27_Unterminated ==
    (lexed # "running" /\ (UnclosedString(lexer.source) \/ UnclosedComment(lexer.source))) =>
        /\ lexed = "raised"
        /\ lexer.err = "LexerError"

\* the 1-based line of the character at index idx of src
LineOf(src, idx) == 1 + Cardinality({i \in 1..idx : src[i] = "\n"})

\* the 1-based column of the character at index idx of src
ColOf(src, idx) ==
    LET nl == {i \in 1..idx : src[i] = "\n"}
    IN idx + 1 - (IF nl = {} THEN 0 ELSE CHOOSE i \in nl : \A j \in nl : j <= i)

\* C28: token positions.  Every token of the lexer carries the line and the column of
\* the first character of its lexeme, and the EOF token those of the position just
\* past the last character of the source.
C28_TokenPositions ==
    \A i \in 1..Len(lexer.tokens) :
        /\ lexer.tokens[i].lineno = LineOf(lexer.source, lexer.tokens[i].start)
        /\ lexer.tokens[i].col = ColOf(lexer.source, lexer.tokens[i].start)

RECURSIVE HasOp(_, _)
\* code, or a Code among its constants, has an instruction op
HasOp(code, op) ==
    \/ \E i \in 1..Len(code.instructions) : code.instructions[i].op = op
    \/ \E i \in 1..Len(code.consts) :
          /\ "t" \in DOMAIN code.consts[i]
          /\ code.consts[i].t = "code"
          /\ HasOp(code.consts[i], op)

\* both executors have run the program to its end, with show bound
BothRan == pc = "done" /\ "show" \in builtins

\* C29: counting-loop fusion.  When a counting-loop program whose loop the compiler
\* has fused (its code has JUMP_IF_GE_LOCAL_IMM) has been run by both executors, the
\* VM run has completed as the source-level execution of the loop has, and has
\* printed the same lines: the same iterations, the rest of the body once per
\* iteration, the exit at the source comparison, the same final counter.
C29_FusedLoopEquivalent ==
    (input[1] = "count_loop" /\ BothRan /\ HasOp(compiled.code, "JUMP_IF_GE_LOCAL_IMM")) =>
        /\ vm.status = "done"
        /\ interp_status = "done"
        /\ VMOut = InterpOut

\* C30: INC_LOCAL for known locals only.  The code of an increment program whose
\* variable is not a parameter or a declared local of the function has no INC_LOCAL,
\* and when both executors have run an increment program the VM run has ended as the
\* source-level execution has (completed, or an error for a variable that does not
\* exist) and has printed the same lines.
C30_IncLocalKnownLocals ==
    input[1] = "inc_assign" =>
        /\ (pc # "compile" /\ IncTargets[input[2]] \notin {"param", "local"}) =>
              ~HasOp(compiled.code, "INC_LOCAL")
        /\ BothRan =>
              /\ (vm.status = "done") <=> (interp_status = "done")
              /\ VMOut = InterpOut

RECURSIVE MadeFrom(_, _)
\* the names MAKE_FUNCTION gives the functions of one backing ("CODE" or "AST") in
\* code and in every Code among its constants; an AST-backed function has no name
MadeFrom(code, backing) ==
    {IF backing = "CODE" THEN code.instructions[i].arg[3] ELSE "" :
        i \in {j \in 1..Len(code.instructions) :
                  /\ code.instructions[j].op = "MAKE_FUNCTION"
                  /\ code.instructions[j].arg[1] = backing}}
    \cup UNION {MadeFrom(code.consts[i], backing) :
                   i \in {j \in 1..Len(code.consts) :
                             /\ "t" \in DOMAIN code.consts[j]
                             /\ code.consts[j].t = "code"}}

\* the functions of some programs: declared functions that reference only their
\* parameters, their own declarations and globals (closed), declared functions that
\* reference a variable of an enclosing function (open), and whether the program has
\* a function expression that references a variable of an enclosing function
FunctionsOf ==
    [add |-> [closed |-> {"add"}, open |-> {}, open_expr |-> FALSE],
     mutual |-> [closed |-> {"even", "odd"}, open |-> {}, open_expr |-> FALSE],
     closure |-> [closed |-> {"make"}, open |-> {"bump"}, open_expr |-> FALSE],
     free_global |-> [closed |-> {}, open |-> {}, open_expr |-> FALSE],
     free_local |-> [closed |-> {"g"}, open |-> {}, open_expr |-> TRUE]]

\* C31: backing of functions.  In the code of a compiled program, the functions made
\* code-backed are exactly the declared functions that reference no variable of an
\* enclosing function, and a function is made AST-backed exactly when the program has
\* a function, declared or an expression, that references such a variable.
C31_BackingByFreeVariables ==
    (input[1] \in DOMAIN FunctionsOf /\ pc # "compile" /\ compiled.err = "") =>
        /\ FunctionsOf[input[1]].closed \subseteq MadeFrom(compiled.code, "CODE")
        /\ FunctionsOf[input[1]].open \cap MadeFrom(compiled.code, "CODE") = {}
        /\ (MadeFrom(compiled.code, "AST") # {}) <=>
              (FunctionsOf[input[1]].open # {} \/ FunctionsOf[input[1]].open_expr)

\* C32: deterministic compilation.  Whatever compile_module calls a Compiler object
\* has served before, what a call returns or raises is what a new Compiler returns
\* or raises for the same AST and module name, so that two compilations of one AST
\* never differ.
C32_CompileDeterministic ==
    compiler.calls > 0 => compiled = CompileOutcome(CompileModule(Program(input), name))

\* the lines the program has printed in this invocation of the runner: the VM and
\* the fallback interpreter write to the same stdout
RunnerOut == VMOut \o InterpOut

\* C33: no repeated side effects.  When a run of the runner has returned after the
\* fallback interpreter executed the program, the program has printed no more lines
\* in the whole run than its execution from start to end prints: what the VM
\* printed before it failed was not printed a second time.
C33_NoRepeatedOutput ==
    (pc = "exit" /\ Interpreted) => Len(RunnerOut) <= Len(InterpOut)

\* subjects of the match programs for which the arm `case n if n == 2` is rejected:
\* all but 0, which the arm before it takes, and 2, for which it is taken
RejectsN == (1..Len(MatchSubjects)) \ {1, 3}

\* C34: rejected arms leave the environment alone.  When the interpreter has run a
\* match program in which the arm `case n if n == 2` was rejected, the enclosing
\* scope has no binding for n; and in the program that declares n = 10 before such
\* a match, the following arm and the code after the match see n = 10.
C34_RejectedArmFrame ==
    (pc = "done" /\ "show" \in builtins) =>
        /\ (input[1] = "match_arm" /\ input[2] \in RejectsN) =>
              "n" \notin DOMAIN interp.heap[1].values
        /\ input[1] = "match_rebind" =>
              (interp_status = "done" /\ InterpOut = <<"10", "10">>)

\* C35: break in a callee.  With show bound, the interpreter run of a program that
\* calls, from a loop body, a function whose body is a break outside any loop of
\* that function ends in a runtime error at the call: the caller's loop is not
\* terminated and nothing after the call is executed.
C35_BreakInCallee ==
    (input[1] \in {"break_from_callee", "break_from_callee_for"} /\ BothRan) =>
        /\ interp_status = "error"
        /\ InterpOut = <<>>

\* the module-level global bindings of a name: in every globals mapping of the VM
\* and in the global environment of the interpreter
GlobalBindings(n) ==
    {vm.globals[g][n] : g \in {h \in DOMAIN vm.globals : n \in DOMAIN vm.globals[h]}}
        \cup (IF n \in DOMAIN interp.heap[1].values THEN {interp.heap[1].values[n]} ELSE {})

\* C36: nested declarations stay local.  At every point of the runs of a program
\* whose function outer declares a function inner in its body, there is no
\* module-level global inner; and where the module declares its own `var inner := 1`,
\* that global is never anything but null (before its declaration) or 1.
C36_NestedFunctionLocal ==
    /\ input[1] = "nested_decl" => GlobalBindings("inner") = {}
    /\ input[1] = "nested_decl_shadow" => GlobalBindings("inner") \subseteq {None, IntV(1)}

\* C37: locals of AST-backed functions.  In a VM run that calls an AST-backed
\* function whose body declares `var y`, the global environment of the VM's
\* interpreter never binds y, and a second invocation that does not execute the
\* declaration does not see the first invocation's y = 7.
C37_AstFunctionLocals ==
    /\ input[1] \in {"ast_var", "ast_var_shared"} =>
          "y" \notin DOMAIN vm.interpreter.heap[1].values
    /\ (input[1] = "ast_var_shared" /\ Len(VMOut) >= 2) => VMOut[2] # "7"

\* C38: arity of AST-backed calls.  With show bound, a VM run that calls the
\* AST-backed function(a, b) { return b; } with the first n of the arguments 7, 8, 9
\* completes and prints null when b is missing (n < 2) and 8 otherwise, the third
\* argument being discarded.
C38_AstCallArity ==
    (input[1] = "ast_call_args" /\ "show" \in builtins /\ VMOver) =>
        /\ vm.status = "done"
        /\ VMOut = <<IF input[2] - 1 < 2 THEN "null" ELSE "8">>

\* the operation of history h that settled the promise first
FirstSettling(h) ==
    h[CHOOSE i \in 1..Len(h) :
          /\ h[i].op \in Settling("resolve") \cup Settling("reject")
          /\ \A j \in 1..(i - 1) : h[j].op \notin Settling("resolve") \cup Settling("reject")]

\* how often callback fn was registered in history h, and how often it was called
TimesRegistered(h, fn) ==
    Cardinality({i \in 1..Len(h) : h[i].op \in {"then", "catch"} /\ h[i].arg = fn})

TimesCalled(cs, fn) == Cardinality({i \in 1..Len(cs) : cs[i][1] = fn})

\* C39: a promise settles once.  A promise is never both resolved and rejected; once
\* settled, it is in the state and holds the value or error that the first settling
\* operation gave it; and no callback is called more often than it was registered.
C39_SettleOnce ==
    /\ ~(promise._resolved /\ promise._rejected)
    /\ (promise._resolved \/ promise._rejected) =>
          /\ promise._resolved = (FirstSettling(ops).op \in Settling("resolve"))
          /\ promise._resolved => promise._value = FirstSettling(ops).arg
          /\ (promise._rejected /\ FirstSettling(ops).op # "raise") =>
                promise._error = FirstSettling(ops).arg
    /\ \A fn \in CallbackNames : TimesCalled(calls, fn) <= TimesRegistered(ops, fn)


\* the nesting depths in which a loop statement is executed
LoopDepths == 0..2

\* the top-level statement the interpreter executes next is a for or loop statement
AtLoopStmt ==
    /\ pc = "execute" /\ interp_status = "running"
    /\ next_stmt <= Len(Program(input))
    /\ Program(input)[next_stmt].k \in {"ForStmt", "LoopStmt"}

\* Interpreter._loop_depth after statement stmt was executed at depth d
DepthAfter(I, stmt, d) == Execute([I EXCEPT !.loop_depth = d], stmt, 1).I.loop_depth

\* C40: Interpreter._loop_depth is never negative; a for or loop statement leaves it
\* at the value it had before the statement, whether the statement ends normally, by
\* break, by a return through it or by an error; and it is 0 between the top-level
\* statements of interpret and after interpret has returned or raised, in the
\* interpreter of the run and in the interpreter the VM keeps for AST-backed functions.
C40_LoopDepthRestored ==
    /\ interp.loop_depth = 0
    /\ vm.interpreter.loop_depth = 0
    /\ AtLoopStmt =>
          \A d \in LoopDepths : DepthAfter(interp, Program(input)[next_stmt], d) = d

\* a run in which loop statements have ended by an error in the body (loop_error,
\* for_throw), by a return through the loop (for_return) and by break (for_break)
C40_Witness ==
    /\ pc = "done" /\ "show" \in builtins
    /\ interp.loop_depth = 0
    /\ \/ input[1] = "loop_error" /\ interp_status = "error" /\ InterpOut = <<"in">>
       \/ input[1] = "for_throw" /\ interp_status = "error" /\ InterpOut = <<"1">>
       \/ input[1] = "for_return" /\ interp_status = "done" /\ InterpOut = <<"5", "end">>

====
